---- MODULE Spec2Model ----
(***************************************************************************)
(* Model of the sample RAG application's backend.                          *)
(*                                                                         *)
(* Strings are sequences of one-character strings.  The chunker of         *)
(* backend/src/fileProcessor.ts is modelled twice over the same helper     *)
(* operators: as the operator chunkText (the function's value) and as a    *)
(* loop-by-loop state machine (Enter, ParagraphIter, SentenceIter,         *)
(* SentenceEnd, Finish), so that termination and the independence of       *)
(* successive calls are properties of the behaviours.                      *)
(*                                                                         *)
(* The documents table of pgClient, the writes and the search made on it,  *)
(* the upload request of backend/src/index.ts and the question request of  *)
(* backend/src/ragService.ts are state machines over the same variables;   *)
(* each collaborator call (connection, embedding, statement, answer        *)
(* generation) is a step that succeeds or fails.                           *)
(***************************************************************************)
EXTENDS Integers, Sequences, FiniteSets, Bags, TLC

\* ------------------------------------------------------------------ bounds
\* longest input text, largest chunkSize and largest overlapSize explored
MaxLen == 5
MaxChunk == 5
MaxOverlap == 3

\* the same for a run of two calls one after the other
CallsMaxLen == 2
CallsMaxChunk == 2
CallsMaxOverlap == 0

\* the same for the calls whose termination is checked
FairMaxLen == 4
FairMaxChunk == 2
FairMaxOverlap == 2

\* longest content of an uploaded file
UploadMaxLen == 2

\* directions an embedding can take, rows the store can hold, largest
\* limit of a search, most chunks of an uploaded file
MaxVec == 2
MaxDocs == 3
MaxLimit == 2
MaxChunks == 3
SeedMaxLen == 5
SeedMaxChunk == 4
SeedMaxOverlap == 1
MaxIds == 2
QuestionMaxLen == 6
MaxRuns == 2
MaxOps == 2
MaxShown == 2
MaxRequests == 2

\* ---------------------------------------------------------------- alphabet
\* The characters of the input texts: a letter, the two whitespace
\* characters the paragraph delimiter tells apart, and a sentence terminator.
Alphabet == {"a", " ", "\n", "."}

\* characters matched by \s and removed by String.prototype.trim
WS == {" ", "\n", "\t", "\r"}

\* the sentence terminators of the character class [.!?。！？]; the three
\* full-width marks belong to the same class as their ASCII counterparts
Punct == {".", "!", "?"}

\* the separator '\n\n' and the separator ' '
NL2 == <<"\n", "\n">>
SP == <<" ">>

Texts == UNION {[1..n -> Alphabet] : n \in 0..MaxLen}
FairTexts == UNION {[1..n -> Alphabet] : n \in 0..FairMaxLen}
CallsTexts == UNION {[1..n -> Alphabet] : n \in 0..CallsMaxLen}
UploadTexts == UNION {[1..n -> Alphabet] : n \in 0..UploadMaxLen}

\* ----------------------------------------------------------- string helpers
MinOf(S) == CHOOSE x \in S : \A y \in S : x <= y
MaxOf(S) == CHOOSE x \in S : \A y \in S : x >= y

\* String.prototype.trim: the whitespace at both ends removed
RECURSIVE trimStart(_)
trimStart(s) ==
  IF s # <<>> /\ Head(s) \in WS THEN trimStart(Tail(s)) ELSE s

RECURSIVE trimEnd(_)
trimEnd(s) ==
  IF s # <<>> /\ s[Len(s)] \in WS THEN trimEnd(SubSeq(s, 1, Len(s) - 1)) ELSE s

trim(s) == trimEnd(trimStart(s))

\* String.prototype.substring(start) with a 0-based start
substring(s, start) == SubSeq(s, start + 1, Len(s))

\* Array.prototype.join('') of an array of strings
RECURSIVE Concat(_)
Concat(ss) == IF ss = <<>> THEN <<>> ELSE Head(ss) \o Concat(Tail(ss))

\* ------------------------------------------------ text.split(/\n\s*\n/)
\* the ends q of the strings "\n" \s* "\n" that start at p
DelimiterEnds(s, p) ==
  {q \in (p + 1)..Len(s) : s[q] = "\n" /\ \A k \in (p + 1)..(q - 1) : s[k] \in WS}

\* the pieces of s from position i on: the leftmost match, greedy in \s*
RECURSIVE SplitFrom(_, _)
SplitFrom(s, i) ==
  LET starts == {p \in i..Len(s) : s[p] = "\n" /\ DelimiterEnds(s, p) # {}}
  IN  IF starts = {}
      THEN <<SubSeq(s, i, Len(s))>>
      ELSE LET p == MinOf(starts)
               q == MaxOf(DelimiterEnds(s, p))
           IN  <<SubSeq(s, i, p - 1)>> \o SplitFrom(s, q + 1)

\* line 33: the paragraphs, blank ones filtered out
splitParagraphs(text) ==
  SelectSeq(SplitFrom(text, 1), LAMBDA p : Len(trim(p)) > 0)

\* ------------------------------------------------------ splitIntoSentences
\* text.match(/[^.!?]+[.!?]+/g): the matches in rest, read from the left,
\* where cur is the match begun so far and inPunct tells that cur has
\* reached its terminators.  A match is the longest run of non-terminators
\* followed by the longest run of terminators; a terminator with no
\* non-terminator before it belongs to no match, and so does text with no
\* terminator after it.
RECURSIVE MatchFrom(_, _, _)
MatchFrom(rest, cur, inPunct) ==
  IF rest = <<>> THEN (IF inPunct THEN <<cur>> ELSE <<>>)
  ELSE IF Head(rest) \in Punct
       THEN IF cur = <<>>
            THEN MatchFrom(Tail(rest), <<>>, FALSE)
            ELSE MatchFrom(Tail(rest), Append(cur, Head(rest)), TRUE)
       ELSE IF inPunct
            THEN <<cur>> \o MatchFrom(Tail(rest), <<Head(rest)>>, FALSE)
            ELSE MatchFrom(Tail(rest), Append(cur, Head(rest)), FALSE)

\* line 118: every sentence trimmed, the empty ones dropped
RECURSIVE TrimAll(_)
TrimAll(ss) ==
  IF ss = <<>> THEN <<>>
  ELSE IF trim(Head(ss)) = <<>> THEN TrimAll(Tail(ss))
  ELSE <<trim(Head(ss))>> \o TrimAll(Tail(ss))

\* lines 110-116: the text after the first matchedLength characters is
\* added as a last sentence unless it is blank
WithRemaining(matched, matchedLength, text) ==
  IF matchedLength < Len(text) /\ trim(substring(text, matchedLength)) # <<>>
  THEN Append(matched, trim(substring(text, matchedLength)))
  ELSE matched

\* lines 105-119; the matches are computed once, as the constant of line 107
splitIntoSentences(text) ==
  CHOOSE out \in
    { TrimAll(sentences) :
        sentences \in
          { WithRemaining(matched, Len(Concat(matched)), text) :
              matched \in {MatchFrom(text, <<>>, FALSE)} } } : TRUE

\* ------------------------------------------------------ addOverlapToChunks
\* the overlap cut from the chunk itself instead of its predecessor
addOverlapFromSelf(chunks, overlapSize) ==
  [i \in 1..Len(chunks) |->
     IF i > 1
     THEN LET start == IF Len(chunks[i]) - overlapSize > 0
                       THEN Len(chunks[i]) - overlapSize ELSE 0
          IN  substring(chunks[i], start) \o NL2 \o chunks[i]
     ELSE chunks[i]]

\* lines 124-141
addOverlapToChunks(chunks, overlapSize) ==
  [i \in 1..Len(chunks) |->
     IF i > 1
     THEN LET prevChunk == chunks[i - 1]
              start == IF Len(prevChunk) - overlapSize > 0
                       THEN Len(prevChunk) - overlapSize ELSE 0
          IN  substring(prevChunk, start) \o NL2 \o chunks[i]
     ELSE chunks[i]]

\* ------------------------------------------------- the loops of chunkText
\* the push without its guard: a blank buffer is pushed too
PushChunkUnguarded(chunks, buffer) == Append(chunks, trim(buffer))

\* lines 48-51, 62-65 and 83-86: push the trimmed buffer unless it is blank
PushChunk(chunks, buffer) ==
  IF trim(buffer) # <<>> THEN Append(chunks, trim(buffer)) ELSE chunks

\* the size test without the two characters of the separator
ParagraphFitsNoSeparator(currentChunk, trimmedParagraph, chunkSize) ==
  Len(currentChunk \o trimmedParagraph) <= chunkSize

\* the size test with < for <=
ParagraphFitsStrict(currentChunk, trimmedParagraph, chunkSize) ==
  Len(currentChunk \o NL2 \o trimmedParagraph) < chunkSize

\* line 44: the test made before a paragraph is appended
ParagraphFits(currentChunk, trimmedParagraph, chunkSize) ==
  Len(currentChunk \o NL2 \o trimmedParagraph) <= chunkSize

\* line 45
AppendParagraph(currentChunk, trimmedParagraph) ==
  IF currentChunk # <<>> THEN currentChunk \o NL2 \o trimmedParagraph
  ELSE trimmedParagraph

\* the sentence loop with a hard cut: a sentence that cannot fit is cut down
\* to chunkSize characters
SentenceStepTruncating(st, sentence, chunkSize) ==
  IF Len(st.sentenceChunk \o SP \o sentence) <= chunkSize
  THEN [chunks |-> st.chunks,
        sentenceChunk |-> IF st.sentenceChunk # <<>>
                          THEN st.sentenceChunk \o SP \o sentence
                          ELSE sentence]
  ELSE [chunks |-> PushChunk(st.chunks, st.sentenceChunk),
        sentenceChunk |-> SubSeq(sentence, 1, MinOf({Len(sentence), chunkSize}))]

\* lines 58-68: one iteration of the sentence loop, on the pair
\* [chunks, sentenceChunk]
SentenceStep(st, sentence, chunkSize) ==
  IF Len(st.sentenceChunk \o SP \o sentence) <= chunkSize
  THEN [chunks |-> st.chunks,
        sentenceChunk |-> IF st.sentenceChunk # <<>>
                          THEN st.sentenceChunk \o SP \o sentence
                          ELSE sentence]
  ELSE [chunks |-> PushChunk(st.chunks, st.sentenceChunk),
        sentenceChunk |-> sentence]

RECURSIVE SentencePass(_, _, _)
SentencePass(st, sentences, chunkSize) ==
  IF sentences = <<>> THEN st
  ELSE SentencePass(SentenceStep(st, Head(sentences), chunkSize),
                    Tail(sentences), chunkSize)

\* the sentence buffer dropped when the sentence loop ends
SeedDiscarded(sentenceChunk) ==
  <<>>

\* lines 70-74: the sentence buffer seeds the paragraph buffer
SeedFromSentences(sentenceChunk) ==
  IF trim(sentenceChunk) # <<>> THEN trim(sentenceChunk) ELSE <<>>

\* lines 40-80: one iteration of the paragraph loop, on the pair
\* [chunks, currentChunk]
ParagraphStep(st, paragraph, chunkSize) ==
  LET trimmedParagraph == trim(paragraph)
  IN  IF ParagraphFits(st.currentChunk, trimmedParagraph, chunkSize)
      THEN [chunks |-> st.chunks,
            currentChunk |-> AppendParagraph(st.currentChunk, trimmedParagraph)]
      ELSE LET flushed == PushChunk(st.chunks, st.currentChunk)
           IN  IF Len(trimmedParagraph) > chunkSize
               THEN LET sp == SentencePass(
                                [chunks |-> flushed, sentenceChunk |-> <<>>],
                                splitIntoSentences(trimmedParagraph), chunkSize)
                    IN  [chunks |-> sp.chunks,
                         currentChunk |-> SeedFromSentences(sp.sentenceChunk)]
               ELSE [chunks |-> flushed, currentChunk |-> trimmedParagraph]

RECURSIVE ParagraphPass(_, _, _)
ParagraphPass(st, paragraphs, chunkSize) ==
  IF paragraphs = <<>> THEN st
  ELSE ParagraphPass(ParagraphStep(st, Head(paragraphs), chunkSize),
                     Tail(paragraphs), chunkSize)

\* lines 88-91
FinalChunks(chunks, overlapSize) ==
  IF overlapSize > 0 /\ Len(chunks) > 1
  THEN addOverlapToChunks(chunks, overlapSize)
  ELSE SelectSeq(chunks, LAMBDA c : Len(trim(c)) > 0)

\* lines 23-100: the value of chunkText(text, chunkSize, overlapSize)
chunkText(text, chunkSize, overlapSize) ==
  IF text = <<>> \/ Len(trim(text)) = 0 THEN <<>>
  ELSE LET st == ParagraphPass([chunks |-> <<>>, currentChunk |-> <<>>],
                               splitParagraphs(text), chunkSize)
       IN  FinalChunks(PushChunk(st.chunks, st.currentChunk), overlapSize)

\* ------------------------------------------------------------------- state
VARIABLES
  text, chunkSize, overlapSize,   \* the arguments of the running call
  pc,                             \* position of the call in chunkText
  paragraphs, pIdx,               \* the paragraph loop (line 40)
  chunks, currentChunk,           \* lines 36-37
  sentences, sIdx, sentenceChunk, \* the sentence loop (lines 55-58)
  result,                         \* the value returned
  earlier,                        \* the calls that returned before this one
  filePath, originalName, mimetype, \* the arguments of processUploadedFile
  fileExists, fileContent,        \* the temporary file on disk
  pdfOutcome,                     \* what pdf-parse makes of the file
  upc,                            \* position in processUploadedFile
  extractedText,                  \* line 223
  processed,                      \* the ProcessedFile returned
  pending, outcome, upError,      \* completion of the try block, of the call
  backend,                        \* the store variant the process was built with
  documents, nextId,              \* the documents table and its id sequence
  points,                         \* the points of the Qdrant collection
  upserted, passed,               \* the texts upsertDocument wrote, the rows
                                  \* upsertDocumentWithMetadata wrote per id
  wpc, wKind, wId, wText, wMetadata, wEmbedding, \* a running write to the store
  spc, limit, threshold, queryEmbedding, found,  \* a running search
  hpc, hIdx, savedChunks,         \* the upload request (index.ts 112-167)
  apc, maxSources, ragResponse,   \* the question request (generateRAGAnswer)
  inflight, log, response,        \* collaborator calls under way, the calls
                                  \* made by the request, its HTTP response
  dpc, ids, numericIds, before,   \* the bulk-delete request (index.ts 255-273)
  qpc, question,                  \* the POST /api/ask handler (index.ts 170-193)
  ipc, sampleIdx, tableExists,    \* initDatabase and the schema it creates
  listening, runs, accesses,      \* app.listen, the starts of the process,
                                  \* the statements handlers ran on the table
  ops, checkedOut,                \* pgClient calls in flight, clients lent by
                                  \* the pool
  serverDocs, shown, loading,     \* DocumentManager: the table as the API
  requests, deleted               \* serves it, the documents and loading
                                  \* states, the HTTP requests under way, the
                                  \* deletes confirmed

args == <<text, chunkSize, overlapSize>>

chunkerVars == <<text, chunkSize, overlapSize, pc, paragraphs, pIdx, chunks,
                 currentChunk, sentences, sIdx, sentenceChunk, result, earlier>>

uploadArgs == <<filePath, originalName, mimetype, pdfOutcome>>

uploadVars == <<filePath, originalName, mimetype, fileExists, fileContent,
                pdfOutcome, upc, extractedText, processed, pending, outcome,
                upError>>

storeVars == <<backend, documents, nextId, points, upserted, passed>>

writeVars == <<wpc, wKind, wId, wText, wMetadata, wEmbedding>>

searchVars == <<spc, limit, threshold, queryEmbedding, found>>

handlerVars == <<hpc, hIdx, savedChunks>>

askVars == <<apc, maxSources, ragResponse>>

serviceVars == <<storeVars, writeVars, searchVars, handlerVars, askVars,
                 inflight, log, response>>

deleteVars == <<dpc, ids, numericIds, before>>

questionVars == <<qpc, question>>

startupVars == <<ipc, sampleIdx, tableExists, listening, runs, accesses>>

poolVars == <<ops, checkedOut>>

managerVars == <<serverDocs, shown, loading, requests, deleted>>

appVars == <<deleteVars, questionVars, startupVars, poolVars, managerVars>>

vars == <<chunkerVars, uploadVars, serviceVars, appVars>>

\* lines 5-14: a ProcessedFile (processedAt left out), and its absence
ProcessedFile(name, cs, type, size) ==
  [filename |-> name, chunks |-> cs,
   metadata |-> [fileType |-> type, originalSize |-> size, totalChunks |-> Len(cs)]]

NoProcessedFile == ProcessedFile("", <<>>, "", 0)

\* no upload is being processed
UploadIdle ==
  /\ filePath = "" /\ originalName = "" /\ mimetype = ""
  /\ fileExists = FALSE /\ fileContent = <<>>
  /\ pdfOutcome = [ok |-> FALSE, text |-> <<>>]
  /\ upc = "idle"
  /\ extractedText = <<>>
  /\ processed = NoProcessedFile
  /\ pending = "none" /\ outcome = "none" /\ upError = "none"

\* no write to the store is running
WriteIdle ==
  /\ wpc = "idle" /\ wKind = "" /\ wId = "" /\ wText = <<>>
  /\ wMetadata = {} /\ wEmbedding = 0

\* no search is running
SearchIdle ==
  /\ spc = "idle" /\ limit = 0 /\ threshold = 0 /\ queryEmbedding = 0
  /\ found = [ok |-> TRUE, error |-> "", rows |-> <<>>]

\* no request is being served
RequestIdle ==
  /\ hpc = "idle" /\ hIdx = 0 /\ savedChunks = <<>>
  /\ apc = "idle" /\ maxSources = 0
  /\ ragResponse = [answer |-> "", sources |-> <<>>]
  /\ inflight = 0 /\ log = <<>>
  /\ response = [status |-> 0, totalChunks |-> 0]

\* an empty store, nothing written to it
StoreEmpty ==
  /\ backend = "postgres"
  /\ documents = <<>> /\ nextId = 1
  /\ points = {}
  /\ upserted = {} /\ passed = {}

\* no bulk delete, no question, an initialised database behind a listening
\* server, no pgClient call, no DocumentManager mounted
AppIdle ==
  /\ dpc = "idle" /\ ids = [kind |-> "missing", items |-> <<>>]
  /\ numericIds = <<>> /\ before = <<>>
  /\ qpc = "idle" /\ question = [kind |-> "undefined", chars |-> <<>>]
  /\ ipc = "idle" /\ sampleIdx = 0 /\ tableExists = TRUE
  /\ listening = TRUE /\ runs = 0 /\ accesses = {}
  /\ ops = EmptyBag /\ checkedOut = 0
  /\ serverDocs = {} /\ shown = {} /\ requests = {} /\ deleted = {}
  /\ loading = FALSE

\* the server with an empty store and no request
ServiceIdle == StoreEmpty /\ WriteIdle /\ SearchIdle /\ RequestIdle

\* the locals of a call that has not started
FreshLocals ==
  /\ paragraphs = <<>> /\ pIdx = 0
  /\ chunks = <<>> /\ currentChunk = <<>>
  /\ sentences = <<>> /\ sIdx = 0 /\ sentenceChunk = <<>>
  /\ result = <<>>

\* a call of chunkText about to start, on any text and positive sizes
Init ==
  /\ AppIdle
  /\ text \in Texts
  /\ chunkSize \in 1..MaxChunk
  /\ overlapSize \in 0..MaxOverlap
  /\ pc = "start"
  /\ FreshLocals
  /\ earlier = <<>>
  /\ UploadIdle
  /\ ServiceIdle

\* chunks kept from one call to the next, as an array declared once at
\* module level would be
EnterKeepingChunks ==
  /\ pc = "start"
  /\ IF text = <<>> \/ Len(trim(text)) = 0
     THEN /\ pc' = "done"
          /\ result' = <<>>
          /\ UNCHANGED <<paragraphs, pIdx, chunks, currentChunk>>
     ELSE /\ pc' = "paragraphs"
          /\ paragraphs' = splitParagraphs(text)
          /\ pIdx' = 1
          /\ currentChunk' = <<>>
          /\ UNCHANGED <<chunks, result>>
  /\ UNCHANGED <<args, sentences, sIdx, sentenceChunk, earlier, uploadVars, serviceVars, appVars>>

\* lines 27-38: the blank-text return, else the split and the fresh locals
Enter ==
  /\ pc = "start"
  /\ IF text = <<>> \/ Len(trim(text)) = 0
     THEN /\ pc' = "done"
          /\ result' = <<>>
          /\ UNCHANGED <<paragraphs, pIdx, chunks, currentChunk>>
     ELSE /\ pc' = "paragraphs"
          /\ paragraphs' = splitParagraphs(text)
          /\ pIdx' = 1
          /\ chunks' = <<>>
          /\ currentChunk' = <<>>
          /\ UNCHANGED result
  /\ UNCHANGED <<args, sentences, sIdx, sentenceChunk, earlier, uploadVars, serviceVars, appVars>>

\* lines 40-56 and 75-78: one paragraph; an over-long one opens the
\* sentence loop
ParagraphIter ==
  /\ pc = "paragraphs"
  /\ pIdx <= Len(paragraphs)
  /\ LET trimmedParagraph == trim(paragraphs[pIdx])
     IN  IF ParagraphFits(currentChunk, trimmedParagraph, chunkSize)
         THEN /\ currentChunk' = AppendParagraph(currentChunk, trimmedParagraph)
              /\ pIdx' = pIdx + 1
              /\ UNCHANGED <<pc, chunks, sentences, sIdx, sentenceChunk>>
         ELSE /\ chunks' = PushChunk(chunks, currentChunk)
              /\ IF Len(trimmedParagraph) > chunkSize
                 THEN /\ sentences' = splitIntoSentences(trimmedParagraph)
                      /\ sIdx' = 1
                      /\ sentenceChunk' = <<>>
                      /\ pc' = "sentences"
                      /\ UNCHANGED <<currentChunk, pIdx>>
                 ELSE /\ currentChunk' = trimmedParagraph
                      /\ pIdx' = pIdx + 1
                      /\ UNCHANGED <<pc, sentences, sIdx, sentenceChunk>>
  /\ UNCHANGED <<args, paragraphs, result, earlier, uploadVars, serviceVars, appVars>>

\* lines 58-68: one sentence
SentenceIter ==
  /\ pc = "sentences"
  /\ sIdx <= Len(sentences)
  /\ LET st == SentenceStep([chunks |-> chunks, sentenceChunk |-> sentenceChunk],
                            sentences[sIdx], chunkSize)
     IN  /\ chunks' = st.chunks
         /\ sentenceChunk' = st.sentenceChunk
  /\ sIdx' = sIdx + 1
  /\ UNCHANGED <<args, pc, paragraphs, pIdx, currentChunk, sentences, result,
                 earlier, uploadVars, serviceVars, appVars>>

\* lines 70-74: the sentence loop is over, back to the paragraph loop
SentenceEnd ==
  /\ pc = "sentences"
  /\ sIdx > Len(sentences)
  /\ currentChunk' = SeedFromSentences(sentenceChunk)
  /\ pIdx' = pIdx + 1
  /\ pc' = "paragraphs"
  /\ UNCHANGED <<args, paragraphs, chunks, sentences, sIdx, sentenceChunk, result,
                 earlier, uploadVars, serviceVars, appVars>>

\* the return without the last flush of lines 83-86
FinishWithoutFlush ==
  /\ pc = "paragraphs"
  /\ pIdx > Len(paragraphs)
  /\ result' = FinalChunks(chunks, overlapSize)
  /\ pc' = "done"
  /\ UNCHANGED <<args, paragraphs, pIdx, chunks, currentChunk, sentences, sIdx,
                 sentenceChunk, earlier, uploadVars, serviceVars, appVars>>

\* the overlap pass failing with a range error when overlapSize exceeds the
\* length of a predecessor, as a slice without Math.max(0, ...) does where
\* negative indices are errors
FinishRangeChecked ==
  /\ pc = "paragraphs"
  /\ pIdx > Len(paragraphs)
  /\ chunks' = PushChunk(chunks, currentChunk)
  /\ IF /\ overlapSize > 0 /\ Len(chunks') > 1
        /\ \E i \in 1..(Len(chunks') - 1) : Len(chunks'[i]) < overlapSize
     THEN pc' = "error" /\ UNCHANGED result
     ELSE pc' = "done" /\ result' = FinalChunks(chunks', overlapSize)
  /\ UNCHANGED <<args, paragraphs, pIdx, currentChunk, sentences, sIdx, sentenceChunk,
                 earlier, uploadVars, serviceVars, appVars>>

\* lines 82-99: the last flush, the overlap pass and the return
Finish ==
  /\ pc = "paragraphs"
  /\ pIdx > Len(paragraphs)
  /\ chunks' = PushChunk(chunks, currentChunk)
  /\ result' = FinalChunks(chunks', overlapSize)
  /\ pc' = "done"
  /\ UNCHANGED <<args, paragraphs, pIdx, currentChunk, sentences, sIdx, sentenceChunk,
                 earlier, uploadVars, serviceVars, appVars>>

Next ==
  \/ Enter
  \/ ParagraphIter
  \/ SentenceIter
  \/ SentenceEnd
  \/ Finish

Spec == Init /\ [][Next]_vars

\* --------------------------------------------------- a call, from outside
\* chunkText has not been called yet
InitFair ==
  /\ AppIdle
  /\ text = <<>> /\ chunkSize = 1 /\ overlapSize = 0
  /\ pc = "idle"
  /\ FreshLocals
  /\ earlier = <<>>
  /\ UploadIdle
  /\ ServiceIdle

\* line 23: chunkText is called, on any text and positive sizes
Call ==
  /\ pc = "idle"
  /\ text' \in FairTexts
  /\ chunkSize' \in 1..FairMaxChunk
  /\ overlapSize' \in 0..FairMaxOverlap
  /\ pc' = "start"
  /\ UNCHANGED <<paragraphs, pIdx, chunks, currentChunk, sentences, sIdx,
                 sentenceChunk, result, earlier, uploadVars, serviceVars, appVars>>

NextFair ==
  \/ Call
  \/ Enter
  \/ ParagraphIter
  \/ SentenceIter
  \/ SentenceEnd
  \/ Finish

\* chunkText is synchronous code: a call that has started takes each of its
\* steps
SpecFair == InitFair /\ [][NextFair]_vars /\ WF_vars(NextFair)

\* ------------------------------------------------- one call after another
InitCalls ==
  /\ AppIdle
  /\ text \in CallsTexts
  /\ chunkSize \in 1..(CallsMaxChunk)
  /\ overlapSize \in 0..(CallsMaxOverlap)
  /\ pc = "start"
  /\ FreshLocals
  /\ earlier = <<>>
  /\ UploadIdle
  /\ ServiceIdle

\* the call has returned and chunkText is called a second time, on any
\* arguments; whatever the first call left behind is still in memory
CallAgain ==
  /\ pc = "done"
  /\ earlier = <<>>
  /\ earlier' = <<[args |-> args, result |-> result]>>
  /\ text' \in CallsTexts
  /\ chunkSize' \in 1..(CallsMaxChunk)
  /\ overlapSize' \in 0..(CallsMaxOverlap)
  /\ pc' = "start"
  /\ UNCHANGED <<paragraphs, pIdx, chunks, currentChunk, sentences, sIdx,
                 sentenceChunk, result, uploadVars, serviceVars, appVars>>

NextCalls ==
  \/ Enter
  \/ ParagraphIter
  \/ SentenceIter
  \/ SentenceEnd
  \/ Finish
  \/ CallAgain

SpecCalls == InitCalls /\ [][NextCalls]_vars

\* ---------------------------------------------------- processUploadedFile
\* the content types of isSupportedFileType (lines 287-295) and one other
SupportedTypes == {"application/pdf", "text/plain", "text/markdown"}
ContentTypes == SupportedTypes \cup {"image/png"}

\* lines 148-170: the text of a PDF, or the failure; pdf-parse throws on a
\* corrupt file (ok = FALSE) or returns its text
extractTextFromPDF(exists, content, parsed) ==
  IF ~exists THEN [ok |-> FALSE, text |-> <<>>]
  ELSE IF Len(content) = 0 THEN [ok |-> FALSE, text |-> <<>>]
  ELSE IF ~parsed.ok \/ parsed.text = <<>> THEN [ok |-> FALSE, text |-> <<>>]
  ELSE [ok |-> TRUE, text |-> parsed.text]

\* lines 177-194: the content of a text file, or the failure
extractTextFromTextFile(exists, content) ==
  IF ~exists THEN [ok |-> FALSE, text |-> <<>>]
  ELSE IF content = <<>> \/ Len(trim(content)) = 0 THEN [ok |-> FALSE, text |-> <<>>]
  ELSE [ok |-> TRUE, text |-> content]

\* lines 227-237: the extraction chosen by the content type
ExtractByType(type, exists, content, parsed) ==
  IF type = "application/pdf" THEN extractTextFromPDF(exists, content, parsed)
  ELSE IF type \in {"text/plain", "text/markdown"}
       THEN extractTextFromTextFile(exists, content)
  ELSE [ok |-> FALSE, text |-> <<>>]

\* line 244: the sizes processUploadedFile chunks with
UploadChunkSize == 1500
UploadOverlapSize == 150

\* a call of processUploadedFile about to start: any arguments, a temporary
\* file that may be there and may be empty, any outcome of the PDF parser
InitUpload ==
  /\ AppIdle
  /\ filePath \in {"", "uploads/f1"}
  /\ originalName \in {"", "notes.txt"}
  /\ mimetype \in ContentTypes \cup {""}
  /\ fileExists \in (IF filePath = "" THEN {FALSE} ELSE BOOLEAN)
  /\ fileContent \in (IF fileExists THEN UploadTexts ELSE {<<>>})
  /\ pdfOutcome \in (IF mimetype = "application/pdf"
                     THEN [ok : BOOLEAN, text : UploadTexts]
                     ELSE {[ok |-> FALSE, text |-> <<>>]})
  /\ upc = "start"
  /\ extractedText = <<>>
  /\ processed = NoProcessedFile
  /\ pending = "none" /\ outcome = "none" /\ upError = "none"
  /\ text = <<>> /\ chunkSize = 1 /\ overlapSize = 0
  /\ pc = "idle"
  /\ FreshLocals
  /\ earlier = <<>>
  /\ ServiceIdle

\* lines 208-221: the three checks made before the try block; each throws
\* out of the function at once
UploadCheck ==
  /\ upc = "start"
  /\ IF filePath = "" \/ originalName = "" \/ mimetype = ""
     THEN upc' = "done" /\ outcome' = "threw" /\ upError' = "parameters"
     ELSE IF ~fileExists
     THEN upc' = "done" /\ outcome' = "threw" /\ upError' = "not found"
     ELSE IF Len(fileContent) = 0
     THEN upc' = "done" /\ outcome' = "threw" /\ upError' = "empty file"
     ELSE upc' = "extract" /\ UNCHANGED <<outcome, upError>>
  /\ UNCHANGED <<uploadArgs, fileExists, fileContent, extractedText, processed,
                 pending, chunkerVars, serviceVars, appVars>>

\* the extraction, with a blank text answered by a file of no chunks
\* instead of an error
UploadExtractBlankReturns ==
  /\ upc = "extract"
  /\ LET ex == ExtractByType(mimetype, fileExists, fileContent, pdfOutcome)
     IN  IF ~ex.ok
         THEN /\ pending' = "threw"
              /\ upError' = (IF mimetype \in SupportedTypes THEN "extraction"
                             ELSE "unsupported")
              /\ upc' = "finally"
              /\ UNCHANGED <<extractedText, processed>>
         ELSE IF ex.text = <<>> \/ Len(trim(ex.text)) = 0
         THEN /\ pending' = "returned"
              /\ processed' = ProcessedFile(originalName, <<>>, mimetype,
                                            Len(fileContent))
              /\ upc' = "finally"
              /\ extractedText' = ex.text
              /\ UNCHANGED upError
         ELSE /\ extractedText' = ex.text
              /\ upc' = "chunk"
              /\ UNCHANGED <<pending, upError, processed>>
  /\ UNCHANGED <<uploadArgs, fileExists, fileContent, outcome,
                 chunkerVars, serviceVars, appVars>>

\* lines 225-241, 266-268: the extraction and the blank-text check; a
\* failure is rethrown by the catch clause and reaches the finally clause
UploadExtract ==
  /\ upc = "extract"
  /\ LET ex == ExtractByType(mimetype, fileExists, fileContent, pdfOutcome)
     IN  IF ~ex.ok
         THEN /\ pending' = "threw"
              /\ upError' = (IF mimetype \in SupportedTypes THEN "extraction"
                             ELSE "unsupported")
              /\ upc' = "finally"
              /\ UNCHANGED extractedText
         ELSE IF ex.text = <<>> \/ Len(trim(ex.text)) = 0
         THEN /\ pending' = "threw"
              /\ upError' = "no text"
              /\ upc' = "finally"
              /\ extractedText' = ex.text
         ELSE /\ extractedText' = ex.text
              /\ upc' = "chunk"
              /\ UNCHANGED <<pending, upError>>
  /\ UNCHANGED <<uploadArgs, fileExists, fileContent, processed, outcome,
                 chunkerVars, serviceVars, appVars>>

\* lines 243-264: the chunks and the ProcessedFile, or the no-chunk error
UploadChunk ==
  /\ upc = "chunk"
  /\ LET cs == chunkText(extractedText, UploadChunkSize, UploadOverlapSize)
     IN  IF Len(cs) = 0
         THEN /\ pending' = "threw"
              /\ upError' = "no chunks"
              /\ UNCHANGED processed
         ELSE /\ pending' = "returned"
              /\ processed' = ProcessedFile(originalName, cs, mimetype,
                                            Len(fileContent))
              /\ UNCHANGED upError
  /\ upc' = "finally"
  /\ UNCHANGED <<uploadArgs, fileExists, fileContent, extractedText, outcome,
                 chunkerVars, serviceVars, appVars>>

\* lines 269-279: the finally clause unlinks the temporary file if it is
\* there, then the call completes as the try block did
UploadFinally ==
  /\ upc = "finally"
  /\ fileExists' = FALSE
  /\ outcome' = pending
  /\ upc' = "done"
  /\ UNCHANGED <<uploadArgs, fileContent, extractedText, processed, pending,
                 upError, chunkerVars, serviceVars, appVars>>

NextUpload ==
  \/ UploadCheck
  \/ UploadExtract
  \/ UploadChunk
  \/ UploadFinally

SpecUpload == InitUpload /\ [][NextUpload]_vars

\* -------------------------------------------------------- the vector store
\* The embedding of a text is a unit vector of the plane at an angle of
\* v * 45 degrees, v in Vectors; the cosine similarity of two of them
\* (pgClient line 328, 1 - cosine distance) is kept in tenths.
Vectors == 0..MaxVec

CosTenths == <<10, 7, 0, -7, -10>>

CosineSimilarity(a, b) == CosTenths[(IF a >= b THEN a - b ELSE b - a) + 1]

\* pgClient line 308: the default threshold (0.3, in tenths)
DefaultThreshold == 3

\* the texts written to the store, the identifiers and metadata given
StoreTexts == {<<"a">>, <<".">>}
Ids == {"1", "memo"}
Metadatas == {{<<"chunkIndex", "1">>}, {<<"filename", "notes.txt">>}}
Thresholds == {DefaultThreshold, 7}

\* pgClient line 215: /^\d+$/ on the identifiers of the model
IsNumericId(id) == id \in {"0", "1", "2", "3", "4", "5", "6", "7", "8", "9"}

\* parseInt of a numeric identifier, Number.prototype.toString of a row id
Digits == <<"0", "1", "2", "3", "4", "5", "6", "7", "8", "9">>

parseInt(id) == (CHOOSE n \in 1..Len(Digits) : Digits[n] = id) - 1

toString(n) == ToString(n)

\* pgClient lines 43-53: a row of the documents table
Row(id, title, content, metadata, embedding) ==
  [id |-> id, title |-> title, content |-> content, metadata |-> metadata,
   embedding |-> embedding]

\* the rows with the primary key id
RowsWithId(docs, id) == {i \in 1..Len(docs) : docs[i].id = id}

\* pgClient line 282: metadata.filename || id
TitleOf(id, metadata) ==
  IF \E kv \in metadata : kv[1] = "filename" /\ kv[2] # ""
  THEN (CHOOSE kv \in metadata : kv[1] = "filename")[2]
  ELSE id

\* pgClient lines 275-279: INSERT with an id taken from the sequence; the
\* sequence advances even when the row is refused for a duplicate key
InsertSerial(docs, next, title, content, metadata, embedding) ==
  IF RowsWithId(docs, next) # {}
  THEN [ok |-> FALSE, documents |-> docs, nextId |-> next + 1, id |-> next]
  ELSE [ok |-> TRUE,
        documents |-> Append(docs, Row(next, title, content, metadata, embedding)),
        nextId |-> next + 1, id |-> next]

\* pgClient lines 219-227: INSERT ... ON CONFLICT (id) DO UPDATE of content
\* and embedding; the sequence is not used
InsertOrUpdate(docs, next, id, title, content, embedding) ==
  IF RowsWithId(docs, id) # {}
  THEN [ok |-> TRUE,
        documents |-> [i \in 1..Len(docs) |->
                         IF docs[i].id = id
                         THEN [docs[i] EXCEPT !.content = content,
                                              !.embedding = embedding]
                         ELSE docs[i]],
        nextId |-> next, id |-> id]
  ELSE [ok |-> TRUE,
        documents |-> Append(docs, Row(id, title, content, {}, embedding)),
        nextId |-> next, id |-> id]

\* pgClient lines 207-255 and 263-296: the statement each function runs
WriteStatement(kind, docs, next, id, txt, metadata, embedding) ==
  IF kind = "upsertDocumentWithMetadata"
  THEN InsertSerial(docs, next, TitleOf(id, metadata), txt, metadata, embedding)
  ELSE IF IsNumericId(id)
  THEN InsertOrUpdate(docs, next, parseInt(id), "Document " \o id, txt, embedding)
  ELSE InsertSerial(docs, next, id, txt, {}, embedding)

\* pgClient lines 329-331, 359-360: the orders ORDER BY embedding <=> $1 may
\* give the rows, nearest first, equal distances in any order
Orderings(rows, q) ==
  { p \in [1..Len(rows) -> 1..Len(rows)] :
      /\ \A i, j \in 1..Len(rows) : i # j => p[i] # p[j]
      /\ \A i, j \in 1..Len(rows) :
           i < j => CosineSimilarity(rows[p[i]].embedding, q)
                      >= CosineSimilarity(rows[p[j]].embedding, q) }

\* LIMIT k of the ordered rows
TopRows(rows, q, k) ==
  { [i \in 1..MinOf({k, Len(rows)}) |-> rows[p[i]]] : p \in Orderings(rows, q) }

\* pgClient line 330: WHERE 1 - (embedding <=> $1) > $2
AboveThreshold(docs, q, th) ==
  SelectSeq(docs, LAMBDA r : CosineSimilarity(r.embedding, q) > th)

\* pgClient lines 376-380, 383-387: the rows as returned to the caller
MapRows(rows, q) ==
  [i \in 1..Len(rows) |->
     [id |-> toString(rows[i].id),
      score |-> CosineSimilarity(rows[i].embedding, q),
      text |-> rows[i].content]]

Found(rows) == [ok |-> TRUE, error |-> "", rows |-> rows]

Failed(error) == [ok |-> FALSE, error |-> error, rows |-> <<>>]

\* a call made to a collaborator by the request being served
LogEntry(op, chunk) == [op |-> op, chunk |-> chunk]

\* ----------------------------- upsertDocument, upsertDocumentWithMetadata
\* pgClient lines 208, 268: pool.connect(), which fails when no connection
\* is to be had within the timeout
WriteConnect ==
  /\ wpc = "connect"
  /\ \/ wpc' = "embed"
     \/ wpc' = "threw"
  /\ UNCHANGED <<wKind, wId, wText, wMetadata, wEmbedding, storeVars, searchVars,
                 handlerVars, askVars, inflight, log, response,
                 chunkerVars, uploadVars, appVars>>

\* pgClient lines 212, 272: embedText(text) is called
WriteEmbedCall ==
  /\ wpc = "embed"
  /\ wpc' = "embedding"
  /\ inflight' = inflight + 1
  /\ log' = Append(log, LogEntry("embed", hIdx + 1))
  /\ UNCHANGED <<wKind, wId, wText, wMetadata, wEmbedding, storeVars, searchVars,
                 handlerVars, askVars, response, chunkerVars, uploadVars, appVars>>

\* pgClient lines 140-151: the embedding arrives, or the call fails and
\* the error goes through the catch and finally clauses to the caller
WriteEmbedReturn ==
  /\ wpc = "embedding"
  /\ inflight' = inflight - 1
  /\ \/ /\ wEmbedding' \in Vectors
        /\ wpc' = "store"
     \/ /\ wpc' = "threw"
        /\ UNCHANGED wEmbedding
  /\ UNCHANGED <<wKind, wId, wText, wMetadata, storeVars, searchVars,
                 handlerVars, askVars, log, response, chunkerVars, uploadVars, appVars>>

\* pgClient lines 229, 242, 281: client.query of the statement is called
WriteStoreCall ==
  /\ wpc = "store"
  /\ wpc' = "storing"
  /\ inflight' = inflight + 1
  /\ log' = Append(log, LogEntry("store", hIdx + 1))
  /\ UNCHANGED <<wKind, wId, wText, wMetadata, wEmbedding, storeVars, searchVars,
                 handlerVars, askVars, response, chunkerVars, uploadVars, appVars>>

\* the statement has run, or the database has failed without running it
WriteStoreReturn ==
  /\ wpc = "storing"
  /\ inflight' = inflight - 1
  /\ \/ LET w == WriteStatement(wKind, documents, nextId, wId, wText,
                                wMetadata, wEmbedding)
        IN  /\ documents' = w.documents
            /\ nextId' = w.nextId
            /\ wpc' = (IF w.ok THEN "returned" ELSE "threw")
            /\ upserted' = (IF w.ok /\ wKind = "upsertDocument"
                            THEN {u \in upserted : u[1] # toString(w.id)}
                                   \cup {<<toString(w.id), wText>>}
                            ELSE upserted)
            /\ passed' = (IF w.ok /\ wKind = "upsertDocumentWithMetadata"
                          THEN passed \cup {<<wId, w.id>>}
                          ELSE passed)
     \/ /\ wpc' = "threw"
        /\ UNCHANGED <<documents, nextId, upserted, passed>>
  /\ UNCHANGED <<wKind, wId, wText, wMetadata, wEmbedding, backend, points,
                 searchVars, handlerVars, askVars, log, response,
                 chunkerVars, uploadVars, appVars>>

\* ------------------------------------------------- searchSimilarDocuments
\* pgClient line 310: pool.connect()
SearchConnect ==
  /\ spc = "connect"
  /\ \/ spc' = "embed" /\ UNCHANGED found
     \/ spc' = "threw" /\ found' = Failed("connect")
  /\ UNCHANGED <<limit, threshold, queryEmbedding, storeVars, writeVars,
                 handlerVars, askVars, inflight, log, response,
                 chunkerVars, uploadVars, appVars>>

\* pgClient line 318: the query is embedded
SearchEmbed ==
  /\ spc = "embed"
  /\ log' = Append(log, LogEntry("embed", 0))
  /\ \/ /\ queryEmbedding' \in Vectors
        /\ spc' = "query"
        /\ UNCHANGED found
     \/ /\ spc' = "threw"
        /\ found' = Failed("embed")
        /\ UNCHANGED queryEmbedding
  /\ UNCHANGED <<limit, threshold, storeVars, writeVars, handlerVars, askVars,
                 inflight, response, chunkerVars, uploadVars, appVars>>

\* pgClient lines 322-348, 383-387: the query with the threshold; its rows
\* are returned when there are any
SearchQuery ==
  /\ spc = "query"
  /\ log' = Append(log, LogEntry("query", 0))
  /\ \/ \E rows \in TopRows(AboveThreshold(documents, queryEmbedding, threshold),
                            queryEmbedding, limit) :
          IF Len(rows) > 0
          THEN /\ found' = Found(MapRows(rows, queryEmbedding))
               /\ spc' = "returned"
          ELSE /\ spc' = "retry"
               /\ UNCHANGED found
     \/ /\ spc' = "threw"
        /\ found' = Failed("query")
  /\ UNCHANGED <<limit, threshold, queryEmbedding, storeVars, writeVars,
                 handlerVars, askVars, inflight, response,
                 chunkerVars, uploadVars, appVars>>

\* pgClient lines 349-381: no row passed the threshold, so the query is run
\* again without the threshold and its rows are returned
SearchRetry ==
  /\ spc = "retry"
  /\ log' = Append(log, LogEntry("query", 0))
  /\ \/ \E rows \in TopRows(documents, queryEmbedding, limit) :
          /\ found' = Found(MapRows(rows, queryEmbedding))
          /\ spc' = "returned"
     \/ /\ spc' = "threw"
        /\ found' = Failed("query")
  /\ UNCHANGED <<limit, threshold, queryEmbedding, storeVars, writeVars,
                 handlerVars, askVars, inflight, response,
                 chunkerVars, uploadVars, appVars>>

\* --------------------------------------------------------- generateRAGAnswer
\* ragService lines 107-109: the preview of a source text
PreviewLength == 150

chunk_preview(txt) ==
  IF Len(txt) > PreviewLength
  THEN SubSeq(txt, 1, PreviewLength) \o <<".", ".", ".">>
  ELSE txt

\* ragService lines 103-110: the sources of the response
Sources(rows) ==
  [i \in 1..Len(rows) |->
     [id |-> rows[i].id, score |-> rows[i].score, text |-> rows[i].text,
      chunk_preview |-> chunk_preview(rows[i].text)]]

\* ragService lines 45-49: the answer given when the search returns nothing
NoInformation == [answer |-> "no relevant information", sources |-> <<>>]

\* ragService line 34: the search is started, with maxSources as its limit
\* and the default threshold
AskSearch ==
  /\ apc = "start"
  /\ spc = "idle"
  /\ apc' = "searching"
  /\ spc' = "connect"
  /\ limit' = maxSources
  /\ threshold' = DefaultThreshold
  /\ UNCHANGED <<queryEmbedding, found, maxSources, ragResponse, storeVars,
                 writeVars, handlerVars, inflight, log, response,
                 chunkerVars, uploadVars, appVars>>

\* ragService lines 34-50, 127-130: the search has settled; an error is
\* rethrown, an empty result is answered at once
AskSearched ==
  /\ apc = "searching"
  /\ spc \in {"returned", "threw"}
  /\ spc' = "idle"
  /\ IF spc = "threw"
     THEN /\ apc' = "threw"
          /\ response' = [status |-> 500, totalChunks |-> 0]
          /\ UNCHANGED ragResponse
     ELSE IF Len(found.rows) = 0
     THEN /\ apc' = "done"
          /\ ragResponse' = NoInformation
          /\ response' = [status |-> 200, totalChunks |-> 0]
     ELSE /\ apc' = "generate"
          /\ UNCHANGED <<ragResponse, response>>
  /\ UNCHANGED <<limit, threshold, queryEmbedding, found, maxSources, storeVars,
                 writeVars, handlerVars, inflight, log, chunkerVars, uploadVars, appVars>>

\* ragService lines 52-125: the language model is called with the sources;
\* its answer, or the fixed text when the answer is empty, is returned
AskGenerate ==
  /\ apc = "generate"
  /\ log' = Append(log, LogEntry("generate", 0))
  /\ \/ /\ \E answer \in {"generated", "error text"} :
             ragResponse' = [answer |-> answer, sources |-> Sources(found.rows)]
        /\ apc' = "done"
        /\ response' = [status |-> 200, totalChunks |-> 0]
     \/ /\ apc' = "threw"
        /\ response' = [status |-> 500, totalChunks |-> 0]
        /\ UNCHANGED ragResponse
  /\ UNCHANGED <<maxSources, storeVars, writeVars, searchVars, handlerVars,
                 inflight, chunkerVars, uploadVars, appVars>>

\* the stores a question can meet: up to MaxDocs rows of any embedding
StoredDocuments ==
  UNION { [1..n -> [id : 1..MaxDocs, title : {"memo"}, content : {<<"a">>},
                    metadata : {{}}, embedding : Vectors]] : n \in 0..MaxDocs }

\* a question arrives at a server whose store holds any documents
InitAsk ==
  /\ AppIdle
  /\ backend = "postgres"
  /\ documents \in {d \in StoredDocuments : \A i \in 1..Len(d) : d[i].id = i}
  /\ nextId = Len(documents) + 1
  /\ points = {} /\ upserted = {} /\ passed = {}
  /\ WriteIdle /\ SearchIdle
  /\ hpc = "idle" /\ hIdx = 0 /\ savedChunks = <<>>
  /\ apc = "start"
  /\ maxSources \in 1..MaxLimit
  /\ ragResponse = [answer |-> "", sources |-> <<>>]
  /\ inflight = 0 /\ log = <<>>
  /\ response = [status |-> 0, totalChunks |-> 0]
  /\ text = <<>> /\ chunkSize = 1 /\ overlapSize = 0
  /\ pc = "idle"
  /\ FreshLocals
  /\ earlier = <<>>
  /\ UploadIdle

NextAsk ==
  \/ AskSearch
  \/ SearchConnect
  \/ SearchEmbed
  \/ SearchQuery
  \/ SearchRetry
  \/ AskSearched
  \/ AskGenerate

SpecAsk == InitAsk /\ [][NextAsk]_vars

\* --------------------------------------------------------- POST /api/upload
\* a file of k paragraphs, each as long as a chunk may be
LongParagraph == [i \in 1..UploadChunkSize |-> "a"]

RECURSIVE LongText(_)
LongText(k) ==
  IF k <= 1 THEN LongParagraph ELSE LongText(k - 1) \o NL2 \o LongParagraph

\* the bodies uploaded: the short texts and files of several chunks
UploadBodies == UploadTexts \cup {LongText(k) : k \in 2..MaxChunks}

\* chunk ids numbered from zero, as the loop index is
ChunkIdZeroBased(filename, i) == filename \o "_chunk_" \o ToString(i)

\* index.ts line 131: the identifier of chunk i (counted from 0)
ChunkId(filename, i) == filename \o "_chunk_" \o ToString(i + 1)

\* index.ts lines 132-136: the metadata of chunk i
ChunkMetadata(file, i) ==
  {<<"fileType", file.metadata.fileType>>,
   <<"originalSize", ToString(file.metadata.originalSize)>>,
   <<"totalChunks", ToString(file.metadata.totalChunks)>>,
   <<"chunkIndex", ToString(i + 1)>>,
   <<"sourceFile", file.filename>>}

\* an upload request arrives: with or without a file part, of any content
\* type, any body, any outcome of the PDF parser; the store is empty
InitUploadRequest ==
  /\ AppIdle
  /\ filePath \in {"", "uploads/f1"}
  /\ originalName \in (IF filePath = "" THEN {""} ELSE {"notes.txt"})
  /\ mimetype \in (IF filePath = "" THEN {""} ELSE ContentTypes)
  /\ fileExists = FALSE
  /\ fileContent \in (IF filePath = "" THEN {<<>>} ELSE UploadBodies)
  /\ pdfOutcome \in (IF mimetype = "application/pdf"
                     THEN [ok : BOOLEAN, text : UploadTexts]
                     ELSE {[ok |-> FALSE, text |-> <<>>]})
  /\ upc = "idle"
  /\ extractedText = <<>>
  /\ processed = NoProcessedFile
  /\ pending = "none" /\ outcome = "none" /\ upError = "none"
  /\ text = <<>> /\ chunkSize = 1 /\ overlapSize = 0
  /\ pc = "idle"
  /\ FreshLocals
  /\ earlier = <<>>
  /\ StoreEmpty /\ WriteIdle /\ SearchIdle
  /\ hpc = "start" /\ hIdx = 0 /\ savedChunks = <<>>
  /\ apc = "idle" /\ maxSources = 0
  /\ ragResponse = [answer |-> "", sources |-> <<>>]
  /\ inflight = 0 /\ log = <<>>
  /\ response = [status |-> 0, totalChunks |-> 0]

\* index.ts lines 59-71, 112: multer refuses a file of an unsupported type
\* (the error is answered by the framework) and writes an accepted file to
\* the uploads directory, from where it may be gone before it is processed
UploadFilter ==
  /\ hpc = "start"
  /\ IF filePath = ""
     THEN /\ hpc' = "handler"
          /\ UNCHANGED <<fileExists, response>>
     ELSE IF mimetype \notin SupportedTypes
     THEN /\ hpc' = "responded"
          /\ response' = [status |-> 500, totalChunks |-> 0]
          /\ UNCHANGED fileExists
     ELSE /\ hpc' = "handler"
          /\ fileExists' \in BOOLEAN
          /\ UNCHANGED response
  /\ UNCHANGED <<hIdx, savedChunks, uploadArgs, fileContent, upc, extractedText,
                 processed, pending, outcome, upError, storeVars, writeVars,
                 searchVars, askVars, inflight, log, chunkerVars, appVars>>

\* index.ts lines 114-126: a request without a file is answered 400; else
\* processUploadedFile is called
UploadHandle ==
  /\ hpc = "handler"
  /\ IF filePath = ""
     THEN /\ hpc' = "responded"
          /\ response' = [status |-> 400, totalChunks |-> 0]
          /\ UNCHANGED upc
     ELSE /\ hpc' = "processing"
          /\ upc' = "start"
          /\ UNCHANGED response
  /\ UNCHANGED <<hIdx, savedChunks, uploadArgs, fileExists, fileContent,
                 extractedText, processed, pending, outcome, upError, storeVars,
                 writeVars, searchVars, askVars, inflight, log, chunkerVars, appVars>>

\* the handler going on to the loop whatever processUploadedFile did
UploadProcessedIgnoringError ==
  /\ hpc = "processing"
  /\ upc = "done"
  /\ hpc' = "loop"
  /\ UNCHANGED response
  /\ hIdx' = 0
  /\ savedChunks' = <<>>
  /\ UNCHANGED <<uploadVars, storeVars, writeVars, searchVars, askVars,
                 inflight, log, chunkerVars, appVars>>

\* index.ts lines 122-130, 160-166: processUploadedFile has settled; its
\* error is answered 500, else the loop over the chunks starts
UploadProcessed ==
  /\ hpc = "processing"
  /\ upc = "done"
  /\ IF outcome = "threw"
     THEN /\ hpc' = "responded"
          /\ response' = [status |-> 500, totalChunks |-> 0]
     ELSE /\ hpc' = "loop"
          /\ UNCHANGED response
  /\ hIdx' = 0
  /\ savedChunks' = <<>>
  /\ UNCHANGED <<uploadVars, storeVars, writeVars, searchVars, askVars,
                 inflight, log, chunkerVars, appVars>>

\* index.ts lines 130-142, 151-159: the next chunk is handed to
\* upsertDocumentWithMetadata; after the last one the request is answered
UploadLoop ==
  /\ hpc = "loop"
  /\ IF hIdx < Len(processed.chunks)
     THEN /\ hpc' = "saving"
          /\ wpc' = "connect"
          /\ wKind' = "upsertDocumentWithMetadata"
          /\ wId' = ChunkId(processed.filename, hIdx)
          /\ wText' = processed.chunks[hIdx + 1]
          /\ wMetadata' = ChunkMetadata(processed, hIdx)
          /\ UNCHANGED response
     ELSE /\ hpc' = "responded"
          /\ response' = [status |-> 200, totalChunks |-> Len(processed.chunks)]
          /\ UNCHANGED <<wpc, wKind, wId, wText, wMetadata>>
  /\ UNCHANGED <<hIdx, savedChunks, wEmbedding, storeVars, searchVars, askVars, inflight, log,
                 chunkerVars, uploadVars, appVars>>

\* the loop stepping over the chunk after the one stored
UploadSavedSkipping ==
  /\ hpc = "saving"
  /\ wpc = "returned"
  /\ wpc' = "idle"
  /\ savedChunks' = Append(savedChunks, [id |-> wId, text |-> wText])
  /\ hIdx' = hIdx + 2
  /\ hpc' = "loop"
  /\ UNCHANGED <<wKind, wId, wText, wMetadata, wEmbedding, storeVars, searchVars,
                 askVars, inflight, log, response, chunkerVars, uploadVars, appVars>>

\* index.ts lines 138-149: the chunk is stored; it is added to savedChunks
UploadSaved ==
  /\ hpc = "saving"
  /\ wpc = "returned"
  /\ wpc' = "idle"
  /\ savedChunks' = Append(savedChunks, [id |-> wId, text |-> wText])
  /\ hIdx' = hIdx + 1
  /\ hpc' = "loop"
  /\ UNCHANGED <<wKind, wId, wText, wMetadata, wEmbedding, storeVars, searchVars,
                 askVars, inflight, log, response, chunkerVars, uploadVars, appVars>>

\* the error of one chunk caught inside the loop, which goes on
UploadCatchContinue ==
  /\ hpc = "saving"
  /\ wpc = "threw"
  /\ hpc' = "loop"
  /\ hIdx' = hIdx + 1
  /\ UNCHANGED <<savedChunks, response, writeVars, storeVars, searchVars, askVars,
                 inflight, log, chunkerVars, uploadVars, appVars>>

\* index.ts lines 160-166: the error of upsertDocumentWithMetadata leaves
\* the loop and is answered 500
UploadCatch ==
  /\ hpc = "saving"
  /\ wpc = "threw"
  /\ hpc' = "responded"
  /\ response' = [status |-> 500, totalChunks |-> 0]
  /\ UNCHANGED <<hIdx, savedChunks, writeVars, storeVars, searchVars, askVars,
                 inflight, log, chunkerVars, uploadVars, appVars>>

NextUploadRequest ==
  \/ UploadFilter
  \/ UploadHandle
  \/ UploadCheck
  \/ UploadExtract
  \/ UploadChunk
  \/ UploadFinally
  \/ UploadProcessed
  \/ UploadLoop
  \/ WriteConnect
  \/ WriteEmbedCall
  \/ WriteEmbedReturn
  \/ WriteStoreCall
  \/ WriteStoreReturn
  \/ UploadSaved
  \/ UploadCatch

SpecUploadRequest == InitUploadRequest /\ [][NextUploadRequest]_vars

\* ------------------------------------------------- the Qdrant variant
\* fileProcessor lines 349-359: the text is embedded and the point is put
\* with its id and vector, and no payload; either call may fail
QdrantUpsertDocument ==
  /\ backend = "qdrant"
  /\ wpc = "idle" /\ spc = "idle"
  /\ \E id \in Ids, txt \in StoreTexts :
       \/ \E vector \in Vectors :
            /\ points' = {p \in points : p.id # id}
                           \cup {[id |-> id, vector |-> vector]}
            /\ upserted' = {u \in upserted : u[1] # id} \cup {<<id, txt>>}
       \/ UNCHANGED <<points, upserted>>
  /\ UNCHANGED <<backend, documents, nextId, passed, writeVars, searchVars,
                 handlerVars, askVars, inflight, log, response,
                 chunkerVars, uploadVars, appVars>>

\* the hits of a search: the k points nearest the query, with the payload
\* stored for each, which is none
QdrantHits(q, k) ==
  LET rows == { r \in [id : Ids, score : {CosTenths[i] : i \in 1..Len(CosTenths)}] :
                  \E p \in points : /\ p.id = r.id
                                    /\ r.score = CosineSimilarity(p.vector, q) }
  IN  { h \in SUBSET rows :
          /\ Cardinality(h) = MinOf({k, Cardinality(rows)})
          /\ \A r \in h, o \in rows \ h : r.score >= o.score }

\* fileProcessor lines 368-379: the query is embedded, the search is posted
\* and each hit is mapped to its id, score and payload.text; reading the
\* text of a hit without payload is a TypeError
QdrantSearchSimilarDocuments ==
  /\ backend = "qdrant"
  /\ wpc = "idle" /\ spc = "idle"
  /\ \E k \in 1..MaxLimit :
       /\ limit' = k
       /\ \/ \E q \in Vectors : \E hits \in QdrantHits(q, k) :
               /\ queryEmbedding' = q
               /\ IF hits = {}
                  THEN found' = Found(<<>>) /\ spc' = "returned"
                  ELSE found' = Failed("TypeError") /\ spc' = "threw"
          \/ /\ found' = Failed("request")
             /\ spc' = "threw"
             /\ UNCHANGED queryEmbedding
  /\ UNCHANGED <<threshold, storeVars, writeVars, handlerVars, askVars, inflight,
                 log, response, chunkerVars, uploadVars, appVars>>

\* ------------------------------------------- the store, called directly
\* the server starts with either variant of the store, empty
InitStore ==
  /\ AppIdle
  /\ backend \in {"postgres", "qdrant"}
  /\ documents = <<>> /\ nextId = 1
  /\ points = {}
  /\ upserted = {} /\ passed = {}
  /\ WriteIdle /\ SearchIdle /\ RequestIdle
  /\ text = <<>> /\ chunkSize = 1 /\ overlapSize = 0
  /\ pc = "idle"
  /\ FreshLocals
  /\ earlier = <<>>
  /\ UploadIdle

\* pgClient line 207: upsertDocument(id, text) is called, while the table
\* has fewer rows than there are identifiers
CallUpsertDocument ==
  /\ backend = "postgres"
  /\ wpc = "idle" /\ spc = "idle"
  /\ Len(documents) < Cardinality(Ids)
  /\ wpc' = "connect"
  /\ wKind' = "upsertDocument"
  /\ wId' \in Ids
  /\ wText' \in StoreTexts
  /\ wMetadata' = {}
  /\ log' = <<>>
  /\ UNCHANGED <<wEmbedding, storeVars, searchVars, handlerVars, askVars,
                 inflight, response, chunkerVars, uploadVars, appVars>>

\* pgClient line 263: upsertDocumentWithMetadata(id, text, metadata) is
\* called
CallUpsertDocumentWithMetadata ==
  /\ backend = "postgres"
  /\ wpc = "idle" /\ spc = "idle"
  /\ Len(documents) < Cardinality(Ids)
  /\ wpc' = "connect"
  /\ wKind' = "upsertDocumentWithMetadata"
  /\ wId' \in Ids
  /\ wText' \in StoreTexts
  /\ wMetadata' \in Metadatas
  /\ log' = <<>>
  /\ UNCHANGED <<wEmbedding, storeVars, searchVars, handlerVars, askVars, inflight, response,
                 chunkerVars, uploadVars, appVars>>

\* the promise of the write settles and its locals are gone
WriteSettled ==
  /\ hpc = "idle"
  /\ wpc \in {"returned", "threw"}
  /\ wpc' = "idle" /\ wKind' = "" /\ wId' = "" /\ wText' = <<>>
  /\ wMetadata' = {} /\ wEmbedding' = 0
  /\ UNCHANGED <<storeVars, searchVars,
                 handlerVars, askVars, inflight, log, response,
                 chunkerVars, uploadVars, appVars>>

\* pgClient line 305: searchSimilarDocuments(query, limit, threshold) is
\* called
CallSearchSimilarDocuments ==
  /\ backend = "postgres"
  /\ wpc = "idle" /\ spc = "idle"
  /\ spc' = "connect"
  /\ limit' \in 1..MaxLimit
  /\ threshold' \in Thresholds
  /\ found' = Found(<<>>)
  /\ log' = <<>>
  /\ UNCHANGED <<queryEmbedding, storeVars, writeVars, handlerVars, askVars,
                 inflight, response, chunkerVars, uploadVars, appVars>>

\* the promise of the search settles and its locals are gone
SearchSettled ==
  /\ apc = "idle"
  /\ spc \in {"returned", "threw"}
  /\ spc' = "idle" /\ limit' = 0 /\ threshold' = 0 /\ queryEmbedding' = 0
  /\ found' = Found(<<>>)
  /\ UNCHANGED <<storeVars, writeVars,
                 handlerVars, askVars, inflight, log, response,
                 chunkerVars, uploadVars, appVars>>

NextStore ==
  \/ CallUpsertDocument
  \/ CallUpsertDocumentWithMetadata
  \/ WriteConnect
  \/ WriteEmbedCall
  \/ WriteEmbedReturn
  \/ WriteStoreCall
  \/ WriteStoreReturn
  \/ WriteSettled
  \/ CallSearchSimilarDocuments
  \/ SearchConnect
  \/ SearchEmbed
  \/ SearchQuery
  \/ SearchRetry
  \/ SearchSettled
  \/ QdrantUpsertDocument
  \/ QdrantSearchSimilarDocuments

SpecStore == InitStore /\ [][NextStore]_vars

\* ------------------------------------------------------------------ claims
Blank(s) == \A i \in 1..Len(s) : s[i] \in WS

NonWS(s) == SelectSeq(s, LAMBDA c : c \notin WS)

MinNat(a, b) == IF a <= b THEN a ELSE b

\* the last n characters of s
LastChars(s, n) == SubSeq(s, Len(s) - n + 1, Len(s))

\* the segments of a result with the prefix of the overlap pass (the tail of
\* the predecessor's own content and the two newlines) removed again
RECURSIVE StripFrom(_, _, _, _)
StripFrom(acc, res, i, ov) ==
  IF i > Len(res) THEN acc
  ELSE StripFrom(Append(acc, substring(res[i], MinNat(ov, Len(acc[i - 1])) + 2)),
                 res, i + 1, ov)

StripOverlap(res, ov) ==
  IF ov = 0 \/ Len(res) <= 1 THEN res ELSE StripFrom(<<res[1]>>, res, 2, ov)

\* no terminator of s is followed by further text
NoInternalPunct(s) ==
  \A i \in 1..(Len(s) - 1) : s[i] \in Punct => s[i + 1] \in Punct

\* s is one sentence cut from a paragraph of the text longer than chunkSize
SentenceOfLongParagraph(s) ==
  \E k \in 1..Len(paragraphs) :
    LET p == trim(paragraphs[k])
    IN  /\ Len(p) > chunkSize
        /\ \E j \in 1..Len(splitIntoSentences(p)) : splitIntoSentences(p)[j] = s

\* every maximal whitespace run of s holding two or more newlines replaced
\* by exactly two newlines
RECURSIVE CollapseFrom(_, _)
CollapseFrom(s, i) ==
  IF i > Len(s) THEN <<>>
  ELSE IF s[i] \notin WS THEN <<s[i]>> \o CollapseFrom(s, i + 1)
  ELSE LET solid == {k \in i..Len(s) : s[k] \notin WS}
           e == IF solid = {} THEN Len(s) ELSE MinOf(solid) - 1
           newlines == Cardinality({k \in i..e : s[k] = "\n"})
       IN  (IF newlines >= 2 THEN NL2 ELSE SubSeq(s, i, e)) \o CollapseFrom(s, e + 1)

CollapseBlankRuns(s) == CollapseFrom(s, 1)

\* C1: a finished call returned the empty sequence if and only if its text
\* is empty or consists only of whitespace.
C1_EmptyIffBlank ==
  pc = "done" => ((result = <<>>) <=> Blank(text))

C1_Witness ==
  pc = "done" /\ text # <<>> /\ Blank(text) /\ result = <<>>

\* C2 (as claimed): every returned segment, its overlap prefix removed, is
\* at most chunkSize long unless it is a single sentence of an over-long
\* paragraph, longer than chunkSize, in which no terminator is followed by
\* further text.
C2_SizeBound ==
  pc = "done" =>
    LET base == StripOverlap(result, overlapSize)
    IN  \A i \in 1..Len(base) :
          \/ Len(base[i]) <= chunkSize
          \/ /\ SentenceOfLongParagraph(base[i])
             /\ NoInternalPunct(base[i])

\* C3 (as claimed): without overlap the segments, read in order, hold the
\* non-whitespace characters of the text, all of them, once, in order.
C3_ContentPreserved ==
  (pc = "done" /\ overlapSize = 0) => NonWS(Concat(result)) = NonWS(text)

\* C4: with overlapSize = V > 0 and two or more base segments b, the call
\* returns as many segments; the first is b[1] and segment i > 1 is the last
\* min(V, Len(b[i-1])) characters of b[i-1], two newlines, then b[i].
C4_OverlapShape ==
  LET b == chunkText(text, chunkSize, 0)
  IN  (pc = "done" /\ overlapSize > 0 /\ Len(b) >= 2) =>
        /\ Len(result) = Len(b)
        /\ result[1] = b[1]
        /\ \A i \in 2..Len(b) :
             result[i] = LastChars(b[i - 1], MinNat(overlapSize, Len(b[i - 1])))
                           \o NL2 \o b[i]

C4_Witness ==
  /\ pc = "done" /\ overlapSize > 0 /\ Len(result) >= 3
  /\ \E i \in 1..(Len(chunks) - 1) : Len(chunks[i]) > overlapSize

\* C5 (as claimed): a non-blank text whose trimmed length is at most
\* chunkSize comes back as one segment equal to the trimmed text.
C5_OneSegmentVerbatim ==
  (pc = "done" /\ ~Blank(text) /\ Len(trim(text)) <= chunkSize) =>
    result = <<trim(text)>>

\* C5 (amended): a non-blank text whose trimmed length is at most chunkSize
\* comes back as one segment, the trimmed text with every paragraph
\* separator (a whitespace run holding two or more newlines) replaced by
\* exactly two newlines.
C5_OneSegmentNormalised ==
  (pc = "done" /\ ~Blank(text) /\ Len(trim(text)) <= chunkSize) =>
    result = <<CollapseBlankRuns(trim(text))>>

C5_Witness ==
  /\ pc = "done" /\ Len(trim(text)) <= chunkSize
  /\ Len(paragraphs) >= 2
  /\ Len(result) = 1 /\ result[1] # trim(text)

\* C6 (as claimed): every returned string is non-empty and has neither
\* leading nor trailing whitespace, whatever overlapSize is.
C6_AllTrimmed ==
  pc = "done" =>
    \A i \in 1..Len(result) :
      /\ result[i] # <<>>
      /\ result[i][1] \notin WS
      /\ result[i][Len(result[i])] \notin WS

\* C6 (amended): every returned string is non-empty and has no trailing
\* whitespace; the first string, and every string when the overlap pass did
\* not run, has no leading whitespace either, and so has every string once
\* its overlap prefix is removed.
C6_TrimmedButPrefix ==
  pc = "done" =>
    /\ \A i \in 1..Len(result) :
         /\ result[i] # <<>>
         /\ result[i][Len(result[i])] \notin WS
         /\ (i = 1 \/ overlapSize = 0) => result[i][1] \notin WS
    /\ LET base == StripOverlap(result, overlapSize)
       IN  \A i \in 1..Len(base) : base[i] # <<>> /\ trim(base[i]) = base[i]

C6_Witness ==
  /\ pc = "done" /\ overlapSize > 0 /\ Len(result) >= 2
  /\ result[2][1] \in WS

\* C8 (as claimed): every segment cut without overlap from a text that is a
\* single paragraph is returned unchanged, as the only segment, when it is
\* chunked again with the same chunkSize.
C8_RechunkIdempotent ==
  (pc = "done" /\ overlapSize = 0 /\ Len(SplitFrom(text, 1)) = 1) =>
    \A i \in 1..Len(result) : chunkText(result[i], chunkSize, 0) = <<result[i]>>

\* C7: a call of chunkText, once started, returns: on every text, every
\* chunkSize and every overlapSize (overlapSize >= chunkSize included) it
\* reaches its return and never an error.
C7_Terminates == (pc = "start") ~> (pc = "done")

C7_Witness ==
  /\ pc = "done" /\ overlapSize >= chunkSize
  /\ \E i \in 1..Len(chunks) :
       Len(chunks[i]) > chunkSize /\ \A k \in 1..Len(chunks[i]) : chunks[i][k] \notin Punct
  /\ Len(result) >= 2

\* C9: a call that follows another call returns what the earlier call
\* returned whenever its arguments equal the earlier call's, and in any case
\* the value of chunkText on its own arguments: nothing the earlier call
\* left behind reaches it.
C9_Deterministic ==
  pc = "done" =>
    /\ result = chunkText(text, chunkSize, overlapSize)
    /\ \A k \in 1..Len(earlier) :
         earlier[k].args = args => earlier[k].result = result

C9_Witness ==
  /\ pc = "done" /\ Len(earlier) = 1
  /\ earlier[1].args = args /\ result # <<>>

\* C10 (as claimed): once processUploadedFile has finished, returning or
\* throwing, no file is left at filePath.
C10_TempFileRemoved ==
  upc = "done" => ~fileExists

\* the operations of the calls the request has made, in order
Ops == [i \in 1..Len(log) |-> log[i].op]

IsPrefix(s, t) == Len(s) <= Len(t) /\ SubSeq(t, 1, Len(s)) = s

\* C11: when the search of a question has settled and no stored document
\* has a similarity above the threshold, the language model is not called
\* and the answer is the fixed no-information answer with no sources, also
\* when the store holds documents at or below the threshold.
C11_NoInformationWhenNothingAbove ==
  (/\ apc \in {"generate", "done"}
   /\ AboveThreshold(documents, queryEmbedding, DefaultThreshold) = <<>>)
  => (/\ apc = "done"
      /\ ragResponse = NoInformation
      /\ \A i \in 1..Len(log) : log[i].op # "generate")


\* the text extraction reads from an uploaded file
UploadedText == IF mimetype = "application/pdf" THEN pdfOutcome.text ELSE fileContent

\* the upload was refused for its content type or its extraction failed
ExtractionFailed ==
  \/ filePath # "" /\ mimetype \notin SupportedTypes
  \/ upError \in {"not found", "empty file", "unsupported", "extraction"}

\* the contents of the rows of the store, in the order they were written
StoredTexts == [i \in 1..Len(documents) |-> documents[i].content]

\* the calls of an upload that stores n chunks
ExpectedCalls(n) ==
  [j \in 1..(2 * n) |->
     LogEntry(IF j % 2 = 1 THEN "embed" ELSE "store", (j + 1) \div 2)]

\* C12: when the text extraction of an upload fails (file missing, empty
\* file, unsupported type, unreadable content) no embedding call and no
\* store write is made, the store is unchanged, and the response is an error.
C12_ExtractionFailureStoresNothing ==
  ExtractionFailed =>
    /\ log = <<>>
    /\ documents = <<>> /\ nextId = 1
    /\ hpc \notin {"loop", "saving"}
    /\ hpc = "responded" => response.status = 500

C12_Witness ==
  /\ hpc = "responded"
  /\ response.status = 500
  /\ upError \in {"not found", "extraction"}

\* C13: an upload whose extracted text is empty or whitespace-only is
\* answered with an error and stores nothing; a success response never
\* reports zero chunks and always follows the storing of every chunk.
C13_BlankTextFails ==
  hpc = "responded" =>
    /\ response.status = 200 =>
         /\ response.totalChunks >= 1
         /\ Len(documents) = response.totalChunks
    /\ (filePath # "" /\ mimetype \in SupportedTypes /\ Blank(UploadedText)) =>
         /\ response.status = 500
         /\ documents = <<>>

C13_Witness ==
  /\ hpc = "responded"
  /\ upError = "no text"
  /\ extractedText # <<>> /\ Blank(extractedText)

\* C14: when the embedding or the store call of chunk k fails, the request
\* is answered with an error, the chunks 1..k-1 stay stored, and no call is
\* made for the chunks after k.
C14_FailureKeepsEarlierChunks ==
  (hpc \in {"saving", "responded"} /\ wpc = "threw") =>
    /\ StoredTexts = SubSeq(processed.chunks, 1, hIdx)
    /\ \A j \in 1..Len(log) : log[j].chunk <= hIdx + 1
    /\ hpc = "responded" => response.status = 500

C14_Witness ==
  /\ hpc = "responded"
  /\ wpc = "threw"
  /\ hIdx = 1
  /\ Len(processed.chunks) = 3
  /\ Len(documents) = 1

\* C15: the chunks of an upload are embedded and stored one after another
\* in index order: at most one call is under way, the calls made so far are
\* embed 1, store 1, embed 2, store 2, ..., the embedding of a chunk starts
\* only when the chunks before it are stored, and a successful upload has
\* made each call exactly once.
C15_OneChunkAtATime ==
  /\ inflight \in {0, 1}
  /\ inflight = 1 => wpc \in {"embedding", "storing"}
  /\ IsPrefix(log, ExpectedCalls(Len(processed.chunks)))
  /\ \A j \in 1..Len(log) :
       log[j].op = "embed" => Len(documents) >= log[j].chunk - 1
  /\ (hpc = "responded" /\ response.status = 200) =>
       /\ log = ExpectedCalls(Len(processed.chunks))
       /\ inflight = 0
       /\ StoredTexts = processed.chunks

C15_Witness ==
  /\ hpc = "saving"
  /\ wpc = "embedding"
  /\ inflight = 1
  /\ hIdx = 2
  /\ Len(documents) = 2


\* C16: a question request embeds the question once, then queries the
\* store once, then calls answer generation at most once; no call is made
\* again after a failure or after an empty result.
C16_EachCollaboratorOnce ==
  apc # "idle" => IsPrefix(Ops, <<"embed", "query", "generate">>)

\* C17: searchSimilarDocuments(query, limit, threshold) returns at most
\* limit results, in order of non-increasing similarity, each with a
\* similarity strictly above the threshold.
C17_SearchContract ==
  (backend = "postgres" /\ spc = "returned") =>
    /\ Len(found.rows) <= limit
    /\ \A i, j \in 1..Len(found.rows) :
         i < j => found.rows[i].score >= found.rows[j].score
    /\ \A i \in 1..Len(found.rows) : found.rows[i].score > threshold

\* C18: in both variants of the store, a search whose result holds a
\* document written by upsertDocument(id, text) returns it with that text,
\* and no search fails over such a record.
C18_RoundTrip ==
  spc \in {"returned", "threw"} =>
    /\ found.error # "TypeError"
    /\ \A i \in 1..Len(found.rows) : \A u \in upserted :
         found.rows[i].id = u[1] => found.rows[i].text = u[2]

\* C19: after any calls of upsertDocumentWithMetadata the store holds at
\* most one record for each identifier passed: a second call with the same
\* id replaces the record of the first.
C19_OneRecordPerId ==
  \A w \in passed :
    Cardinality({i \in 1..Len(documents) :
                   <<w[1], documents[i].id>> \in passed}) <= 1


\* the trimmed, non-empty paragraphs of a text
TrimmedParagraphs(t) == TrimAll(splitParagraphs(t))

\* paragraphs joined by two newlines
RECURSIVE JoinParagraphs(_)
JoinParagraphs(ps) ==
  IF ps = <<>> THEN <<>>
  ELSE IF Len(ps) = 1 THEN Head(ps)
  ELSE Head(ps) \o NL2 \o JoinParagraphs(Tail(ps))

\* segs packs the paragraphs ps greedily: each segment is a run of the next
\* paragraphs, no longer than cs, that the paragraph after it would overfill
RECURSIVE GreedilyPacked(_, _, _)
GreedilyPacked(ps, segs, cs) ==
  IF segs = <<>> THEN ps = <<>>
  ELSE \E k \in 1..Len(ps) :
         /\ Head(segs) = JoinParagraphs(SubSeq(ps, 1, k))
         /\ Len(Head(segs)) <= cs
         /\ k < Len(ps) => Len(Head(segs)) + 2 + Len(ps[k + 1]) > cs
         /\ GreedilyPacked(SubSeq(ps, k + 1, Len(ps)), Tail(segs), cs)

\* C20: for a text whose paragraphs are each at most chunkSize long and
\* overlapSize = 0, the segments returned are runs of consecutive trimmed
\* paragraphs joined by two newlines, each at most chunkSize long, and no
\* segment could take the first paragraph of the next: its length plus 2
\* plus that paragraph's length exceeds chunkSize.
C20_GreedyPacking ==
  (/\ pc = "done"
   /\ overlapSize = 0
   /\ \A i \in 1..Len(TrimmedParagraphs(text)) :
        Len(TrimmedParagraphs(text)[i]) <= chunkSize)
  => GreedilyPacked(TrimmedParagraphs(text), result, chunkSize)

C20_Witness ==
  /\ pc = "done"
  /\ overlapSize = 0
  /\ Len(TrimmedParagraphs(text)) = 2
  /\ \A i \in 1..2 : Len(TrimmedParagraphs(text)[i]) <= chunkSize
  /\ Len(JoinParagraphs(TrimmedParagraphs(text))) > chunkSize
  /\ result = TrimmedParagraphs(text)

\* ------------------------------------------- a long paragraph, then a short one
\* texts made of one paragraph around the size limit, alone or followed by a
\* blank line and a short paragraph
SeedAlphabet == {"a", ".", " "}
SeedParagraphs == UNION {[1..n -> SeedAlphabet] : n \in (SeedMaxLen - 1)..SeedMaxLen}
SeedFollowers == {<<"a">>, <<"a", "a">>}
SeedTexts ==
  SeedParagraphs \cup {p \o NL2 \o q : p \in SeedParagraphs, q \in SeedFollowers}

\* a call of chunkText about to start on such a text
InitSeed ==
  /\ AppIdle
  /\ text \in SeedTexts
  /\ chunkSize \in 1..SeedMaxChunk
  /\ overlapSize \in 0..SeedMaxOverlap
  /\ pc = "start"
  /\ FreshLocals
  /\ earlier = <<>>
  /\ UploadIdle
  /\ ServiceIdle

SpecSeed == InitSeed /\ [][Next]_vars

\* the sentence groups of a paragraph that opens the text: the state of the
\* sentence loop after its last sentence, started on empty buffers
GroupsOf(paragraph, cs) ==
  SentencePass([chunks |-> <<>>, sentenceChunk |-> <<>>],
               splitIntoSentences(paragraph), cs)

\* C21: for a text whose first paragraph is longer than chunkSize (no
\* overlap), the call returns the groups flushed by the sentence loop, then
\* one segment that starts with the last, unflushed group: that group alone
\* when the text has no other paragraph, and that group, two newlines and
\* the second paragraph when the three together are within chunkSize; the
\* group is in no other place of the output, so it is neither dropped nor
\* emitted twice.
C21_LastGroupSeedsBuffer ==
  (/\ pc = "done"
   /\ overlapSize = 0
   /\ Len(TrimmedParagraphs(text)) \in 1..2
   /\ Len(TrimmedParagraphs(text)[1]) > chunkSize
   /\ trim(GroupsOf(TrimmedParagraphs(text)[1], chunkSize).sentenceChunk) # <<>>)
  => LET ps == TrimmedParagraphs(text)
         sp == GroupsOf(ps[1], chunkSize)
         group == trim(sp.sentenceChunk)
     IN  /\ Len(ps) = 1 => result = sp.chunks \o <<group>>
         /\ (Len(ps) = 2 /\ Len(group \o NL2 \o ps[2]) <= chunkSize)
              => result = sp.chunks \o <<group \o NL2 \o ps[2]>>
         /\ (Len(ps) = 2 /\ Len(group \o NL2 \o ps[2]) > chunkSize)
              => result = sp.chunks \o <<group, ps[2]>>

C21_Witness ==
  /\ pc = "done"
  /\ overlapSize = 0
  /\ Len(TrimmedParagraphs(text)) = 2
  /\ Len(TrimmedParagraphs(text)[1]) > chunkSize
  /\ LET ps == TrimmedParagraphs(text)
         sp == GroupsOf(ps[1], chunkSize)
         group == trim(sp.sentenceChunk)
     IN  /\ group # <<>>
         /\ sp.chunks # <<>>
         /\ Len(group \o NL2 \o ps[2]) <= chunkSize
         /\ result = sp.chunks \o <<group \o NL2 \o ps[2]>>

\* the sentences of the paragraphs longer than cs, in order, that are
\* themselves longer than cs
RECURSIVE LongSentences(_, _)
LongSentences(ps, cs) ==
  IF ps = <<>> THEN <<>>
  ELSE (IF Len(Head(ps)) > cs
        THEN SelectSeq(splitIntoSentences(Head(ps)), LAMBDA s : Len(s) > cs)
        ELSE <<>>) \o LongSentences(Tail(ps), cs)

CallsOf(op) == Cardinality({j \in 1..Len(log) : log[j].op = op})

\* C23: an upload answered with success, of a file that chunks into N
\* segments, has made exactly N store writes, one per segment in segment
\* order; the i-th write has the id <filename>_chunk_<i> and a metadata with
\* chunkIndex i and totalChunks N; the response reports totalChunks N and
\* there are N saved chunks, with the same ids and texts.
C23_OneWritePerSegment ==
  (hpc = "responded" /\ response.status = 200) =>
    LET N == Len(processed.chunks)
    IN  /\ N = Len(chunkText(extractedText, UploadChunkSize, UploadOverlapSize))
        /\ CallsOf("store") = N
        /\ Len(documents) = N
        /\ \A i \in 1..N :
             /\ documents[i].content = processed.chunks[i]
             /\ documents[i].title = originalName \o "_chunk_" \o ToString(i)
             /\ <<"chunkIndex", ToString(i)>> \in documents[i].metadata
             /\ <<"totalChunks", ToString(N)>> \in documents[i].metadata
             /\ \A kv \in documents[i].metadata :
                  /\ kv[1] = "chunkIndex" => kv[2] = ToString(i)
                  /\ kv[1] = "totalChunks" => kv[2] = ToString(N)
        /\ response.totalChunks = N
        /\ Len(savedChunks) = N
        /\ \A i \in 1..N :
             /\ savedChunks[i].id = originalName \o "_chunk_" \o ToString(i)
             /\ savedChunks[i].text = processed.chunks[i]

C23_Witness ==
  /\ hpc = "responded"
  /\ response.status = 200
  /\ response.totalChunks = 3
  /\ Len(documents) = 3
  /\ documents[3].title = "notes.txt_chunk_3"

\* the statement of an upsertDocument call runs in this step: a numeric id
\* whose call returns, or another id whose INSERT took a value of the sequence
NumericUpsertDone ==
  /\ wpc = "storing" /\ wKind = "upsertDocument" /\ IsNumericId(wId)
  /\ wpc' = "returned"

SerialUpsertRan ==
  /\ wpc = "storing" /\ wKind = "upsertDocument" /\ ~IsNumericId(wId)
  /\ nextId' # nextId

\* C24: upsertDocument(id, text) on the PostgreSQL store: with an id of
\* decimal digits the table then holds exactly one row with that numeric id,
\* its content the text just given, and (as an invariant) never two rows with
\* one id; with any other id the call adds one new row, with an id no row
\* had, and leaves the rows there were unchanged.
C24_UpsertSemantics ==
  [][/\ NumericUpsertDone =>
          /\ Cardinality(RowsWithId(documents', parseInt(wId))) = 1
          /\ \A i \in RowsWithId(documents', parseInt(wId)) :
               documents'[i].content = wText
     /\ SerialUpsertRan =>
          /\ Len(documents') = Len(documents) + 1
          /\ SubSeq(documents', 1, Len(documents)) = documents
          /\ documents'[Len(documents')].content = wText
          /\ RowsWithId(documents, documents'[Len(documents')].id) = {}]_vars

\* ------------------------------------------------- DELETE /api/documents
\* the identifiers sent and the bodies: no ids field, a string in its
\* place, or an array of up to MaxIds identifiers
DeleteIdStrings == {<<"1">>, <<"2">>, <<"1", "2">>, <<"2", "x">>, <<"x">>}
DeleteBodies ==
  {[kind |-> "missing", items |-> <<>>], [kind |-> "string", items |-> <<>>]}
    \cup {[kind |-> "array", items |-> a] :
             a \in UNION {[1..n -> DeleteIdStrings] : n \in 0..MaxIds}}

\* parseInt(string): leading white space and a sign are skipped, the decimal
\* digits that follow are read, what comes after them is ignored; NaN when
\* there is no digit
RECURSIVE ReadDigits(_, _)
ReadDigits(s, acc) ==
  IF s # <<>> /\ IsNumericId(Head(s))
  THEN ReadDigits(Tail(s), 10 * acc + parseInt(Head(s)))
  ELSE acc

parseIntPrefix(s) ==
  LET t == trimStart(s)
      signed == t # <<>> /\ Head(t) \in {"+", "-"}
      u == IF signed THEN Tail(t) ELSE t
  IN  IF u = <<>> \/ ~IsNumericId(Head(u))
      THEN [nan |-> TRUE, value |-> 0]
      ELSE [nan |-> FALSE,
            value |-> IF signed /\ Head(t) = "-"
                      THEN 0 - ReadDigits(u, 0) ELSE ReadDigits(u, 0)]

\* pgClient line 423: ids.map(id => parseInt(id)).filter(id => !isNaN(id))
RECURSIVE NumericIds(_)
NumericIds(items) ==
  IF items = <<>> THEN <<>>
  ELSE LET n == parseIntPrefix(Head(items))
       IN  (IF n.nan THEN <<>> ELSE <<n.value>>) \o NumericIds(Tail(items))

\* pgClient line 427: DELETE FROM documents WHERE id = ANY($1)
DeleteAny(docs, numbers) ==
  SelectSeq(docs, LAMBDA r : \A i \in 1..Len(numbers) : numbers[i] # r.id)

\* the tables a delete can meet: rows 1..n
DeleteStores ==
  {[i \in 1..n |-> Row(i, "memo", <<"a">>, {}, 0)] : n \in 0..MaxDocs}

\* a bulk-delete request arrives at a server whose table holds some rows
InitDelete ==
  /\ dpc = "handler"
  /\ ids \in DeleteBodies
  /\ numericIds = <<>>
  /\ documents \in DeleteStores
  /\ before = documents
  /\ nextId = Len(documents) + 1
  /\ backend = "postgres"
  /\ points = {} /\ upserted = {} /\ passed = {}
  /\ WriteIdle /\ SearchIdle /\ RequestIdle
  /\ qpc = "idle" /\ question = [kind |-> "undefined", chars |-> <<>>]
  /\ ipc = "idle" /\ sampleIdx = 0 /\ tableExists = TRUE
  /\ listening = TRUE /\ runs = 0 /\ accesses = {}
  /\ ops = EmptyBag /\ checkedOut = 0
  /\ serverDocs = {} /\ shown = {} /\ requests = {} /\ deleted = {}
  /\ loading = FALSE
  /\ text = <<>> /\ chunkSize = 1 /\ overlapSize = 0
  /\ pc = "idle"
  /\ FreshLocals
  /\ earlier = <<>>
  /\ UploadIdle

\* what a step of the delete request leaves alone
DeleteFrame ==
  UNCHANGED <<ids, before, backend, nextId, points, upserted, passed, writeVars,
              searchVars, handlerVars, askVars, inflight, log, questionVars,
              startupVars, poolVars, managerVars, chunkerVars, uploadVars>>

\* index.ts lines 257-263: the body is checked; deleteMultipleDocuments is
\* called with the array
DeleteHandle ==
  /\ dpc = "handler"
  /\ IF ids.kind # "array" \/ Len(ids.items) = 0
     THEN /\ dpc' = "responded"
          /\ response' = [status |-> 400, totalChunks |-> 0]
     ELSE /\ dpc' = "connect"
          /\ UNCHANGED response
  /\ UNCHANGED <<numericIds, documents>>
  /\ DeleteFrame

\* pgClient line 420: pool.connect(), outside the try block
DeleteConnect ==
  /\ dpc = "connect"
  /\ \/ dpc' = "filter"
     \/ dpc' = "threw"
  /\ UNCHANGED <<numericIds, documents, response>>
  /\ DeleteFrame

\* pgClient lines 423-425: the numeric ids; nothing more when there is none
DeleteFilter ==
  /\ dpc = "filter"
  /\ numericIds' = NumericIds(ids.items)
  /\ dpc' = (IF Len(numericIds') = 0 THEN "returned" ELSE "query")
  /\ UNCHANGED <<documents, response>>
  /\ DeleteFrame

\* pgClient lines 427-434: the DELETE statement runs, or the database fails
DeleteQuery ==
  /\ dpc = "query"
  /\ \/ /\ documents' = DeleteAny(documents, numericIds)
        /\ dpc' = "returned"
     \/ /\ dpc' = "threw"
        /\ UNCHANGED documents
  /\ UNCHANGED <<numericIds, response>>
  /\ DeleteFrame

\* index.ts lines 265-272: the answer of the request
DeleteRespond ==
  /\ dpc \in {"returned", "threw"}
  /\ response' = [status |-> (IF dpc = "returned" THEN 200 ELSE 500),
                  totalChunks |-> 0]
  /\ dpc' = "responded"
  /\ UNCHANGED <<numericIds, documents>>
  /\ DeleteFrame

NextDelete ==
  \/ DeleteHandle
  \/ DeleteConnect
  \/ DeleteFilter
  \/ DeleteQuery
  \/ DeleteRespond

SpecDelete == InitDelete /\ [][NextDelete]_vars

\* Number.prototype.toString of a row id, as characters
RECURSIVE NumberChars(_)
NumberChars(n) ==
  IF n < 10 THEN <<Digits[n + 1]>>
  ELSE NumberChars(n \div 10) \o <<Digits[(n % 10) + 1]>>

\* the id of the row is one of the identifiers of the request
Listed(row) == \E i \in 1..Len(ids.items) : ids.items[i] = NumberChars(row.id)

\* C25: a bulk delete answered with success has removed every row whose id
\* is listed in ids and left every other row as it was; a request whose ids
\* is missing, not an array or empty is answered 400 and leaves the table
\* unchanged.
C25_DeletesListedOnly ==
  dpc = "responded" =>
    /\ (ids.kind # "array" \/ ids.items = <<>>) =>
         (response.status = 400 /\ documents = before)
    /\ response.status = 200 =>
         documents = SelectSeq(before, LAMBDA r : ~Listed(r))
    /\ response.status = 500 => documents = before

\* ------------------------------------------------------------ POST /api/ask
\* ragService lines 143, 147: the limits of validateQuestion; line 26: the
\* default of maxSources
MinQuestionLength == 5
MaxQuestionLength == 1000
DefaultMaxSources == 3

\* n characters c
Repeat(c, n) == [i \in 1..n |-> c]

\* the question field of the body: absent, a number, or a string: any short
\* string of letters and spaces, and strings around the upper limit, of
\* letters only or of letters with spaces before and after
QuestionStrings ==
  UNION {[1..n -> {"a", " "}] : n \in 0..QuestionMaxLen}
    \cup {Repeat("a", n) : n \in (MaxQuestionLength - 1)..(MaxQuestionLength + 1)}
    \cup {Repeat(" ", j) \o Repeat("a", MaxQuestionLength - 1) \o Repeat(" ", k) :
             j \in 0..2, k \in 0..2}

Questions ==
  {[kind |-> "undefined", chars |-> <<>>], [kind |-> "number", chars |-> <<>>]}
    \cup {[kind |-> "string", chars |-> q] : q \in QuestionStrings}

\* validateQuestion comparing the length before trimming with the minimum
validateQuestionUntrimmed(q) ==
  IF q.kind = "undefined"
  THEN [threw |-> FALSE, isValid |-> FALSE, message |-> "empty"]
  ELSE IF q.kind # "string"
  THEN [threw |-> TRUE, isValid |-> FALSE, message |-> "TypeError"]
  ELSE IF q.chars = <<>> \/ Len(trim(q.chars)) = 0
  THEN [threw |-> FALSE, isValid |-> FALSE, message |-> "empty"]
  ELSE IF Len(q.chars) < MinQuestionLength
  THEN [threw |-> FALSE, isValid |-> FALSE, message |-> "too short"]
  ELSE IF Len(q.chars) > MaxQuestionLength
  THEN [threw |-> FALSE, isValid |-> FALSE, message |-> "too long"]
  ELSE [threw |-> FALSE, isValid |-> TRUE, message |-> ""]

\* ragService lines 138-152: validateQuestion; undefined is falsy (line
\* 139), a number has no trim method, so the call of line 139 throws
validateQuestion(q) ==
  IF q.kind = "undefined"
  THEN [threw |-> FALSE, isValid |-> FALSE, message |-> "empty"]
  ELSE IF q.kind # "string"
  THEN [threw |-> TRUE, isValid |-> FALSE, message |-> "TypeError"]
  ELSE IF q.chars = <<>> \/ Len(trim(q.chars)) = 0
  THEN [threw |-> FALSE, isValid |-> FALSE, message |-> "empty"]
  ELSE IF Len(trim(q.chars)) < MinQuestionLength
  THEN [threw |-> FALSE, isValid |-> FALSE, message |-> "too short"]
  ELSE IF Len(q.chars) > MaxQuestionLength
  THEN [threw |-> FALSE, isValid |-> FALSE, message |-> "too long"]
  ELSE [threw |-> FALSE, isValid |-> TRUE, message |-> ""]

\* a question request arrives at a server whose table holds at most one row
InitAskEndpoint ==
  /\ qpc = "handler"
  /\ question \in Questions
  /\ backend = "postgres"
  /\ documents \in {d \in StoredDocuments : Len(d) <= 1 /\ \A i \in 1..Len(d) : d[i].id = i}
  /\ nextId = Len(documents) + 1
  /\ points = {} /\ upserted = {} /\ passed = {}
  /\ WriteIdle /\ SearchIdle /\ RequestIdle
  /\ dpc = "idle" /\ ids = [kind |-> "missing", items |-> <<>>]
  /\ numericIds = <<>> /\ before = <<>>
  /\ ipc = "idle" /\ sampleIdx = 0 /\ tableExists = TRUE
  /\ listening = TRUE /\ runs = 0 /\ accesses = {}
  /\ ops = EmptyBag /\ checkedOut = 0
  /\ serverDocs = {} /\ shown = {} /\ requests = {} /\ deleted = {}
  /\ loading = FALSE
  /\ text = <<>> /\ chunkSize = 1 /\ overlapSize = 0
  /\ pc = "idle"
  /\ FreshLocals
  /\ earlier = <<>>
  /\ UploadIdle

\* index.ts lines 171-183, 186-192: the question is validated; an invalid
\* one is answered 400, an error of the validation 500, a valid one goes to
\* generateRAGAnswer
AskHandle ==
  /\ qpc = "handler"
  /\ LET validation == validateQuestion(question)
     IN  IF validation.threw
         THEN /\ qpc' = "responded"
              /\ response' = [status |-> 500, totalChunks |-> 0]
              /\ UNCHANGED <<apc, maxSources>>
         ELSE IF ~validation.isValid
         THEN /\ qpc' = "responded"
              /\ response' = [status |-> 400, totalChunks |-> 0]
              /\ UNCHANGED <<apc, maxSources>>
         ELSE /\ qpc' = "asking"
              /\ apc' = "start"
              /\ maxSources' = DefaultMaxSources
              /\ UNCHANGED response
  /\ UNCHANGED <<question, ragResponse, storeVars, writeVars, searchVars,
                 handlerVars, inflight, log, deleteVars, startupVars, poolVars,
                 managerVars, chunkerVars, uploadVars>>

\* index.ts lines 185-192: generateRAGAnswer has settled and the request is
\* answered
AskAnswered ==
  /\ qpc = "asking"
  /\ apc \in {"done", "threw"}
  /\ qpc' = "responded"
  /\ response' = [status |-> (IF apc = "done" THEN 200 ELSE 500),
                  totalChunks |-> 0]
  /\ UNCHANGED <<question, askVars, storeVars, writeVars, searchVars,
                 handlerVars, inflight, log, deleteVars, startupVars, poolVars,
                 managerVars, chunkerVars, uploadVars>>

NextAskEndpoint ==
  \/ AskHandle
  \/ AskSearch
  \/ SearchConnect
  \/ SearchEmbed
  \/ SearchQuery
  \/ SearchRetry
  \/ AskSearched
  \/ AskGenerate
  \/ AskAnswered

SpecAskEndpoint == InitAskEndpoint /\ [][NextAskEndpoint]_vars

\* the question is a non-empty string of trimmed length 5 or more and of
\* length 1000 or less
Acceptable(q) ==
  /\ q.kind = "string"
  /\ q.chars # <<>>
  /\ Len(trim(q.chars)) >= 5
  /\ Len(q.chars) <= 1000

SampleData ==
  <<[title |-> "Welcome Document",
     content |-> <<"Welcome to our RAG system! This is a sample document to test the vector search functionality.">>,
     metadata |-> {<<"type", "sample">>, <<"category", "welcome">>}],
    [title |-> "AI Introduction",
     content |-> <<"Artificial Intelligence (AI) is the simulation of human intelligence in machines that are programmed to think and learn.">>,
     metadata |-> {<<"type", "sample">>, <<"category", "education">>}],
    [title |-> "RAG Explanation",
     content |-> <<"Retrieval-Augmented Generation (RAG) combines information retrieval with text generation to provide more accurate and contextual responses.">>,
     metadata |-> {<<"type", "sample">>, <<"category", "technical">>}]>>

\* pgClient lines 108-122: INSERT ... ON CONFLICT DO NOTHING with an id taken
\* from the sequence: the row is added, or silently left out when its id is
\* taken (the primary key is the only unique constraint of the table)
InsertSample(docs, next, doc, embedding) ==
  IF RowsWithId(docs, next) # {}
  THEN [documents |-> docs, nextId |-> next + 1]
  ELSE [documents |-> Append(docs, Row(next, doc.title, doc.content,
                                       doc.metadata, embedding)),
        nextId |-> next + 1]

\* a new database, and the server process not started
InitStartup ==
  /\ ipc = "idle" /\ sampleIdx = 0 /\ tableExists = FALSE
  /\ listening = FALSE /\ runs = 0 /\ accesses = {}
  /\ backend = "postgres"
  /\ documents = <<>> /\ nextId = 1
  /\ points = {} /\ upserted = {} /\ passed = {}
  /\ WriteIdle /\ SearchIdle /\ RequestIdle
  /\ dpc = "idle" /\ ids = [kind |-> "missing", items |-> <<>>]
  /\ numericIds = <<>> /\ before = <<>>
  /\ qpc = "idle" /\ question = [kind |-> "undefined", chars |-> <<>>]
  /\ ops = EmptyBag /\ checkedOut = 0
  /\ serverDocs = {} /\ shown = {} /\ requests = {} /\ deleted = {}
  /\ loading = FALSE
  /\ text = <<>> /\ chunkSize = 1 /\ overlapSize = 0
  /\ pc = "idle"
  /\ FreshLocals
  /\ earlier = <<>>
  /\ UploadIdle

\* what a step of the startup leaves alone
StartupFrame ==
  UNCHANGED <<backend, points, upserted, passed, writeVars, searchVars,
              handlerVars, askVars, inflight, log, response, deleteVars,
              questionVars, poolVars, managerVars, chunkerVars, uploadVars>>

\* index.ts lines 1-82: the process starts and the module is evaluated; the
\* async function of lines 75-82 runs up to the first await of initDatabase
\* (pgClient line 33) and the evaluation goes on without waiting for it
StartProcess ==
  /\ ipc = "idle"
  /\ runs < MaxRuns
  /\ runs' = runs + 1
  /\ ipc' = "connect"
  /\ sampleIdx' = 0
  /\ listening' = FALSE
  /\ UNCHANGED <<tableExists, accesses, documents, nextId>>
  /\ StartupFrame

\* index.ts lines 286-288: app.listen, reached by the evaluation of the
\* module whatever the state of the initialisation
Listen ==
  /\ ipc # "idle"
  /\ ~listening
  /\ listening' = TRUE
  /\ UNCHANGED <<ipc, sampleIdx, tableExists, runs, accesses, documents, nextId>>
  /\ StartupFrame

\* pgClient line 33: pool.connect()
InitConnect ==
  /\ ipc = "connect"
  /\ \/ ipc' = "extension"
     \/ ipc' = "failed"
  /\ UNCHANGED <<sampleIdx, tableExists, listening, runs, accesses, documents, nextId>>
  /\ StartupFrame

\* pgClient line 39: CREATE EXTENSION IF NOT EXISTS vector
InitExtension ==
  /\ ipc = "extension"
  /\ \/ ipc' = "table"
     \/ ipc' = "failed"
  /\ UNCHANGED <<sampleIdx, tableExists, listening, runs, accesses, documents, nextId>>
  /\ StartupFrame

\* pgClient lines 43-53: CREATE TABLE IF NOT EXISTS documents
InitTable ==
  /\ ipc = "table"
  /\ \/ /\ ipc' = "indexes"
        /\ tableExists' = TRUE
     \/ /\ ipc' = "failed"
        /\ UNCHANGED tableExists
  /\ UNCHANGED <<sampleIdx, listening, runs, accesses, documents, nextId>>
  /\ StartupFrame

\* pgClient lines 57-81: CREATE INDEX IF NOT EXISTS, four times
InitIndexes ==
  /\ ipc = "indexes"
  /\ \/ ipc' = "samples"
     \/ ipc' = "failed"
  /\ UNCHANGED <<sampleIdx, tableExists, listening, runs, accesses, documents, nextId>>
  /\ StartupFrame

\* pgClient lines 106-123: the next sample document is embedded and
\* inserted, or one of the two calls fails
InitSample ==
  /\ ipc = "samples"
  /\ sampleIdx < Len(SampleData)
  /\ \/ LET ins == InsertSample(documents, nextId, SampleData[sampleIdx + 1], 0)
        IN  /\ documents' = ins.documents
            /\ nextId' = ins.nextId
            /\ sampleIdx' = sampleIdx + 1
            /\ UNCHANGED ipc
     \/ /\ ipc' = "failed"
        /\ UNCHANGED <<sampleIdx, documents, nextId>>
  /\ UNCHANGED <<tableExists, listening, runs, accesses>>
  /\ StartupFrame

\* pgClient lines 125-132, index.ts line 78: initDatabase returns
InitDone ==
  /\ ipc = "samples"
  /\ sampleIdx = Len(SampleData)
  /\ ipc' = "done"
  /\ UNCHANGED <<sampleIdx, tableExists, listening, runs, accesses, documents, nextId>>
  /\ StartupFrame

\* the process ends, after an initialisation that returned or failed (index.ts
\* lines 79-81 log the failure and the server goes on); the database stays
StopProcess ==
  /\ ipc \in {"done", "failed"}
  /\ ipc' = "idle"
  /\ listening' = FALSE
  /\ UNCHANGED <<sampleIdx, tableExists, runs, accesses, documents, nextId>>
  /\ StartupFrame

NextRestart ==
  \/ StartProcess
  \/ Listen
  \/ InitConnect
  \/ InitExtension
  \/ InitTable
  \/ InitIndexes
  \/ InitSample
  \/ InitDone
  \/ StopProcess

SpecRestart == InitStartup /\ [][NextRestart]_vars

\* the rows of the table with a title
RowsTitled(title) == {i \in 1..Len(documents) : documents[i].title = title}

\* C27: when initDatabase has returned, whatever the number of runs before,
\* the table holds each of the three sample documents exactly once.
C27_SamplesOnce ==
  ipc = "done" =>
    \A k \in 1..Len(SampleData) :
      Cardinality(RowsTitled(SampleData[k].title)) = 1

\* ------------------------------------------- requests while the server starts
\* (one start of the process, on a new database)
\* the requests that use the documents table
ReadKinds == {"search", "ask"}
WriteKinds == {"upsert", "upload"}

\* the rows written by requests
RequestRows == {i \in 1..Len(documents) :
                  \A k \in 1..Len(SampleData) : documents[i].title # SampleData[k].title}

\* the handlers that have run a statement on the table while initDatabase
\* had not returned
Accessed(kind) == IF ipc = "done" THEN accesses ELSE accesses \cup {kind}

\* index.ts lines 99-109, 170-193: GET /api/search and POST /api/ask run
\* searchSimilarDocuments, which reads the table
ServeRead ==
  /\ listening
  /\ \E kind \in ReadKinds : accesses' = Accessed(kind)
  /\ UNCHANGED <<ipc, sampleIdx, tableExists, listening, runs, documents, nextId>>
  /\ StartupFrame

\* index.ts lines 85-95, 112-167: POST /api/upsert runs upsertDocument and
\* POST /api/upload runs upsertDocumentWithMetadata, which write a row when
\* the table exists and fail when it does not (one such row at a time)
ServeWrite ==
  /\ listening
  /\ RequestRows = {}
  /\ nextId <= MaxRuns * Len(SampleData) + 1
  /\ \E kind \in WriteKinds :
       /\ accesses' = Accessed(kind)
       /\ IF tableExists
          THEN \E id \in (IF kind = "upsert" THEN Ids ELSE {ChunkId("notes.txt", 0)}) :
                 LET w == WriteStatement(
                            IF kind = "upsert" THEN "upsertDocument"
                            ELSE "upsertDocumentWithMetadata",
                            documents, nextId, id, <<"a">>, {}, 0)
                 IN  /\ documents' = w.documents
                     /\ nextId' = w.nextId
          ELSE UNCHANGED <<documents, nextId>>
  /\ UNCHANGED <<ipc, sampleIdx, tableExists, listening, runs>>
  /\ StartupFrame

\* index.ts lines 242-273: the delete endpoints run deleteDocument or
\* deleteMultipleDocuments, which delete the rows named
ServeDelete ==
  /\ listening
  /\ accesses' = Accessed("delete")
  /\ IF tableExists
     THEN \E n \in 1..MaxOf({1, nextId - 1}) :
            documents' = DeleteAny(documents, <<n>>)
     ELSE UNCHANGED documents
  /\ UNCHANGED <<ipc, sampleIdx, tableExists, listening, runs, nextId>>
  /\ StartupFrame

NextStartup ==
  \/ StartProcess
  \/ Listen
  \/ InitConnect
  \/ InitExtension
  \/ InitTable
  \/ InitIndexes
  \/ InitSample
  \/ InitDone
  \/ ServeRead
  \/ ServeWrite
  \/ ServeDelete

SpecStartup == InitStartup /\ [][NextStartup]_vars

\* C30: no handler of an upsert, upload, search, ask or delete request has
\* run a statement on the documents table while the initDatabase call of
\* the startup had not returned successfully.
C30_InitBeforeRequests ==
  accesses = {}

\* ---------------------------------------------------- the connection pool
\* pgClient line 7: the pool lends at most 20 clients
PoolMax == 20

\* the operations of pgClient that take a client from the pool
PgOperations ==
  {"initDatabase", "saveDocument", "upsertDocument",
   "upsertDocumentWithMetadata", "searchSimilarDocuments", "deleteDocument",
   "deleteMultipleDocuments", "getAllDocuments", "getCollectionInfo"}

\* the number of calls awaited inside the try block of each operation, on
\* each of its paths: initDatabase six statements and, for each of the three
\* samples, an embedding and an insert; searchSimilarDocuments with or without
\* the second query; deleteMultipleDocuments returning early or not
Awaits(kind) ==
  CASE kind = "initDatabase" -> {6 + 2 * Len(SampleData)}
    [] kind = "saveDocument" -> {2}
    [] kind = "upsertDocument" -> {2}
    [] kind = "upsertDocumentWithMetadata" -> {2}
    [] kind = "searchSimilarDocuments" -> {2, 3}
    [] kind = "deleteDocument" -> {1}
    [] kind = "deleteMultipleDocuments" -> {0, 1}
    [] kind = "getAllDocuments" -> {1}
    [] kind = "getCollectionInfo" -> {3}

\* a call of kind that will await n calls
CalledOp(kind, n) ==
  [kind |-> kind, pc |-> "connect", awaits |-> n, step |-> 0,
   pending |-> "none", acquired |-> 0, released |-> 0]

\* the calls under way, with op replaced by next
Replaced(op, next) == (ops (-) SetToBag({op})) (+) SetToBag({next})

\* the process with no pgClient call under way and every client in the pool
InitPool ==
  /\ ops = EmptyBag
  /\ checkedOut = 0
  /\ StoreEmpty /\ WriteIdle /\ SearchIdle /\ RequestIdle
  /\ dpc = "idle" /\ ids = [kind |-> "missing", items |-> <<>>]
  /\ numericIds = <<>> /\ before = <<>>
  /\ qpc = "idle" /\ question = [kind |-> "undefined", chars |-> <<>>]
  /\ ipc = "idle" /\ sampleIdx = 0 /\ tableExists = TRUE
  /\ listening = TRUE /\ runs = 0 /\ accesses = {}
  /\ serverDocs = {} /\ shown = {} /\ requests = {} /\ deleted = {}
  /\ loading = FALSE
  /\ text = <<>> /\ chunkSize = 1 /\ overlapSize = 0
  /\ pc = "idle"
  /\ FreshLocals
  /\ earlier = <<>>
  /\ UploadIdle

\* what a step of a pgClient call leaves alone
PoolFrame ==
  UNCHANGED <<serviceVars, deleteVars, questionVars, startupVars, managerVars,
              chunkerVars, uploadVars>>

\* an operation of pgClient is called, while fewer than MaxOps are under way
PoolCall ==
  /\ BagCardinality(ops) < MaxOps
  /\ \E kind \in PgOperations : \E n \in Awaits(kind) :
       ops' = ops (+) SetToBag({CalledOp(kind, n)})
  /\ UNCHANGED checkedOut
  /\ PoolFrame

\* the first statement of each operation (lines 33, 167, 208, 268, 310, 402,
\* 420, 452, 490): await pool.connect(), before the try block; a client is
\* lent when the pool has one left, or the call is rejected and the
\* operation throws without a client
PoolConnect(op) ==
  /\ op.pc = "connect"
  /\ \/ /\ checkedOut < PoolMax
        /\ checkedOut' = checkedOut + 1
        /\ ops' = Replaced(op, [op EXCEPT !.pc = "body", !.acquired = 1])
     \/ /\ ops' = Replaced(op, [op EXCEPT !.pc = "threw"])
        /\ UNCHANGED checkedOut
  /\ PoolFrame

\* an awaited call rejecting with the error going straight to the caller,
\* as in a function without a finally clause
PoolAwaitNoFinally(op) ==
  /\ op.pc = "body"
  /\ op.step < op.awaits
  /\ \/ ops' = Replaced(op, [op EXCEPT !.step = @ + 1])
     \/ ops' = Replaced(op, [op EXCEPT !.pc = "threw"])
  /\ UNCHANGED checkedOut
  /\ PoolFrame

\* an awaited call of the try block resolves, or rejects: the catch clause
\* rethrows (getCollectionInfo returns a value instead, lines 525-533), and
\* the finally clause is next either way
PoolAwait(op) ==
  /\ op.pc = "body"
  /\ op.step < op.awaits
  /\ \/ ops' = Replaced(op, [op EXCEPT !.step = @ + 1])
     \/ ops' = Replaced(op, [op EXCEPT !.pc = "finally",
                                       !.pending =
                                          IF op.kind = "getCollectionInfo"
                                          THEN "returned" ELSE "threw"])
  /\ UNCHANGED checkedOut
  /\ PoolFrame

\* the try block reaches its return (or its end)
PoolBodyEnd(op) ==
  /\ op.pc = "body"
  /\ op.step = op.awaits
  /\ ops' = Replaced(op, [op EXCEPT !.pc = "finally", !.pending = "returned"])
  /\ UNCHANGED checkedOut
  /\ PoolFrame

\* the finally clause (lines 130-132, 197-199, 252-254, 293-295, 392-394,
\* 410-412, 432-434, 474-476, 534-536): client.release(), then the pending
\* return or throw
PoolFinally(op) ==
  /\ op.pc = "finally"
  /\ checkedOut' = checkedOut - 1
  /\ ops' = Replaced(op, [op EXCEPT !.pc = op.pending, !.released = @ + 1])
  /\ PoolFrame

\* the caller has the result and the call is over
PoolSettle(op) ==
  /\ op.pc \in {"returned", "threw"}
  /\ ops' = ops (-) SetToBag({op})
  /\ UNCHANGED checkedOut
  /\ PoolFrame

NextPool ==
  \/ PoolCall
  \/ \E op \in BagToSet(ops) : PoolConnect(op)
  \/ \E op \in BagToSet(ops) : PoolAwait(op)
  \/ \E op \in BagToSet(ops) : PoolBodyEnd(op)
  \/ \E op \in BagToSet(ops) : PoolFinally(op)
  \/ \E op \in BagToSet(ops) : PoolSettle(op)

SpecPool == InitPool /\ [][NextPool]_vars

\* the number of operations called and not yet returned or thrown
InFlight ==
  BagCardinality(ops)
    - BagCardinality([op \in {o \in BagToSet(ops) : o.pc \in {"returned", "threw"}}
                        |-> ops[op]])

\* C28: an operation of pgClient that has returned or thrown has released
\* the client it acquired exactly once, and none if it acquired none; no
\* client is released before or after that; the number of clients checked
\* out never exceeds the number of operations in flight, and is zero when
\* none is in flight.
C28_ClientsReleased ==
  /\ \A op \in BagToSet(ops) :
       /\ op.pc \in {"returned", "threw"} => op.released = op.acquired
       /\ op.released <= op.acquired
  /\ checkedOut >= 0
  /\ checkedOut <= InFlight
  /\ InFlight = 0 => checkedOut = 0

C28_Witness ==
  /\ \E op \in BagToSet(ops) :
       /\ op.kind = "deleteMultipleDocuments"
       /\ op.awaits = 0
       /\ op.pc = "returned"
       /\ op.acquired = 1 /\ op.released = 1
  /\ \E op \in BagToSet(ops) :
       /\ op.kind = "searchSimilarDocuments"
       /\ op.pc = "threw"
       /\ op.step = 2
       /\ op.acquired = 1 /\ op.released = 1
  /\ checkedOut = 0

\* ------------------------------------------------------- DocumentManager
\* the ids of the documents of the table
ManagedDocs == 1..MaxShown

\* an HTTP request of the component: sent, then served by the API with the
\* rows it read (a list) or failed, then delivered to the component
ListRequest(stage, rows) == [type |-> "list", id |-> 0, stage |-> stage, rows |-> rows]
DeleteRequest(stage, id) == [type |-> "delete", id |-> id, stage |-> stage, rows |-> {}]

\* the component is about to be mounted, the table holds some documents
InitManager ==
  /\ serverDocs \in (SUBSET ManagedDocs) \ {{}}
  /\ shown = {} /\ loading = FALSE /\ requests = {} /\ deleted = {}
  /\ StoreEmpty /\ WriteIdle /\ SearchIdle /\ RequestIdle
  /\ dpc = "idle" /\ ids = [kind |-> "missing", items |-> <<>>]
  /\ numericIds = <<>> /\ before = <<>>
  /\ qpc = "idle" /\ question = [kind |-> "undefined", chars |-> <<>>]
  /\ ipc = "idle" /\ sampleIdx = 0 /\ tableExists = TRUE
  /\ listening = TRUE /\ runs = 0 /\ accesses = {}
  /\ ops = EmptyBag /\ checkedOut = 0
  /\ text = <<>> /\ chunkSize = 1 /\ overlapSize = 0
  /\ pc = "idle"
  /\ FreshLocals
  /\ earlier = <<>>
  /\ UploadIdle

\* what a step of the component or of the API leaves alone
ManagerFrame ==
  UNCHANGED <<serviceVars, deleteVars, questionVars, startupVars, poolVars,
              chunkerVars, uploadVars>>

\* DocumentManager lines 14-18: loadDocuments up to its await
loadDocuments ==
  /\ Cardinality(requests) < MaxRequests
  /\ loading' = TRUE
  /\ requests' = requests \cup {ListRequest("sent", {})}
  /\ UNCHANGED <<serverDocs, shown, deleted>>
  /\ ManagerFrame

\* lines 28-30: the effect runs at mount and when refreshTrigger changes
RefreshTrigger == loadDocuments

\* lines 70-76, 93-94: the refresh button, rendered when not loading
RefreshClick ==
  /\ ~loading
  /\ loadDocuments

\* lines 32-36, 70-76: the delete button of a listed document, rendered
\* when not loading; the request is sent once the dialog is confirmed
DeleteClick ==
  /\ ~loading
  /\ Cardinality(requests) < MaxRequests
  /\ \E id \in shown : requests' = requests \cup {DeleteRequest("sent", id)}
  /\ UNCHANGED <<serverDocs, shown, loading, deleted>>
  /\ ManagerFrame

\* index.ts lines 196-212: GET /api/documents reads the table, or fails
ServerList ==
  /\ \E r \in requests :
       /\ r.type = "list" /\ r.stage = "sent"
       /\ \/ requests' = (requests \ {r}) \cup {ListRequest("served", serverDocs)}
          \/ requests' = (requests \ {r}) \cup {ListRequest("failed", {})}
  /\ UNCHANGED <<serverDocs, shown, loading, deleted>>
  /\ ManagerFrame

\* index.ts lines 242-252: DELETE /api/documents/:id deletes the row, or fails
ServerDelete ==
  /\ \E r \in requests :
       /\ r.type = "delete" /\ r.stage = "sent"
       /\ \/ /\ serverDocs' = serverDocs \ {r.id}
             /\ requests' = (requests \ {r}) \cup {DeleteRequest("served", r.id)}
          \/ /\ requests' = (requests \ {r}) \cup {DeleteRequest("failed", r.id)}
             /\ UNCHANGED serverDocs
  /\ UNCHANGED <<shown, loading, deleted>>
  /\ ManagerFrame

\* DocumentManager lines 18-25: the answer to a list request arrives: the
\* documents state is replaced by the rows received
ListResponse ==
  /\ \E r \in requests :
       /\ r.type = "list" /\ r.stage \in {"served", "failed"}
       /\ requests' = requests \ {r}
       /\ shown' = (IF r.stage = "served" THEN r.rows ELSE shown)
  /\ loading' = FALSE
  /\ UNCHANGED <<serverDocs, deleted>>
  /\ ManagerFrame

\* DocumentManager lines 36-46: the answer to a delete request arrives: on
\* success the document is filtered out of the documents state
DeleteResponse ==
  /\ \E r \in requests :
       /\ r.type = "delete" /\ r.stage \in {"served", "failed"}
       /\ requests' = requests \ {r}
       /\ IF r.stage = "served"
          THEN /\ shown' = shown \ {r.id}
               /\ deleted' = deleted \cup {r.id}
          ELSE UNCHANGED <<shown, deleted>>
  /\ UNCHANGED <<serverDocs, loading>>
  /\ ManagerFrame

NextManager ==
  \/ RefreshTrigger
  \/ RefreshClick
  \/ DeleteClick
  \/ ServerList
  \/ ServerDelete
  \/ ListResponse
  \/ DeleteResponse

SpecManager == InitManager /\ [][NextManager]_vars

\* C29: when no request of the component is outstanding, no document whose
\* delete request succeeded is in the documents list.
C29_DeletedNotShown ==
  requests = {} => shown \cap deleted = {}


====
